---------------------------- MODULE Spec2Model ----------------------------
(***************************************************************************)
(* A model of the Markdown engine of .src/markdown/index.js: decode (the   *)
(* line-oriented block parser and the inline parser that build the AST)    *)
(* and encode (the AST walker that writes HTML).                           *)
(*                                                                         *)
(* A line is a sequence of characters, a character a one-character string  *)
(* (the backtick, which a TLA+ string cannot hold, is the token BT).  The  *)
(* AST is an arena: nodes[id] is the Node object id, parent and children   *)
(* hold ids, Null is JavaScript's null.  Indices into a line are 0-based   *)
(* as in the source; At and Slice translate them.                          *)
(***************************************************************************)
EXTENDS Integers, Sequences, FiniteSets, TLC

VARIABLES
  nodes,     \* the Node objects allocated so far, by id
  cursor,    \* parse's `ast` argument: the node the next line is read at
  doc,       \* the lines parse has consumed, in order
  outcome,   \* "parsing", or how decode ended
  error,     \* the Error decode threw: its message and the text embedded in it
  output,    \* what the last encode call returned
  encodes,   \* the number of encode calls made on the returned AST
  toc        \* what to_toc returned: how the call ended and the list it made

vars == <<nodes, cursor, doc, outcome, error, output, encodes, toc>>

---------------------------------------------------------------------------
(* Values of JavaScript that are not strings or numbers.                   *)

Null == 0
NoLevel == -1
Undefined == <<"undefined">>
NoChar == "undefined"
BT == "BACKTICK"
NoError == [msg |-> "", input |-> <<>>]

\* to_toc has not been called
NoToc == [out |-> "none", root |-> Null]

---------------------------------------------------------------------------
(* Strings.                                                                *)

Min(a, b) == IF a < b THEN a ELSE b
Max(a, b) == IF a < b THEN b ELSE a

\* input[i]
At(s, i) == IF i >= 0 /\ i < Len(s) THEN s[i + 1] ELSE NoChar

\* input.slice(a, b), 0 <= a
Slice(s, a, b) == IF a >= Min(b, Len(s)) THEN <<>> ELSE SubSeq(s, a + 1, Min(b, Len(s)))

\* input.slice(a)
SliceFrom(s, a) == Slice(s, a, Len(s))

startsWith(s, p) == Len(s) >= Len(p) /\ SubSeq(s, 1, Len(p)) = p

endsWith(s, p) == Len(s) >= Len(p) /\ SubSeq(s, Len(s) - Len(p) + 1, Len(s)) = p

\* the number of characters c at the start of s from index i on
RECURSIVE Run(_, _, _)
Run(s, i, c) == IF At(s, i) = c THEN 1 + Run(s, i + 1, c) ELSE 0

\* the index of the first c in s at or after i, or Len(s)
RECURSIVE IndexOf(_, _, _)
IndexOf(s, c, i) == IF i >= Len(s) \/ At(s, i) = c THEN Min(i, Len(s)) ELSE IndexOf(s, c, i + 1)

\* str.split(`|`)
RECURSIVE split(_, _)
split(s, c) ==
  LET k == IndexOf(s, c, 0)
  IN  IF k = Len(s) THEN <<s>> ELSE <<Slice(s, 0, k)>> \o split(SliceFrom(s, k + 1), c)

\* the line terminators of ECMAScript: LF, CR, U+2028, U+2029.  The dot of
\* a regular expression without the s flag takes every character but these.
LineTerminators == {"\n", "\r", "U+2028", "U+2029"}

\* the white space of ECMAScript: TAB, VT, FF, SP, NBSP, ZWNBSP and the
\* space separators of Unicode
UnicodeSpaces ==
  {"U+1680", "U+2000", "U+2001", "U+2002", "U+2003", "U+2004", "U+2005", "U+2006",
   "U+2007", "U+2008", "U+2009", "U+200A", "U+202F", "U+205F", "U+3000"}

WhiteSpace == {"\t", "U+000B", "\f", " ", "U+00A0", "U+FEFF"} \cup UnicodeSpaces

\* .* or .+ can take the whole of s
NoTerminator(s) == \A j \in 1..Len(s) : s[j] \notin LineTerminators

\* str.trim(): the white space and the line terminators at both ends go
RECURSIVE trim(_)
trim(s) ==
  IF s # <<>> /\ Head(s) \in WhiteSpace \cup LineTerminators THEN trim(Tail(s))
  ELSE IF s # <<>> /\ s[Len(s)] \in WhiteSpace \cup LineTerminators
       THEN trim(SubSeq(s, 1, Len(s) - 1))
  ELSE s

Digits == {"0", "1", "2", "3", "4", "5", "6", "7", "8", "9"}

EscapeClass == {"*", "|", BT, "!", "[", "]", "<", ">", "(", ")"}

RECURSIVE unescape(_)
unescape(str) ==
  IF str = <<>> THEN <<>>
  ELSE IF Head(str) = "\\" /\ Len(str) >= 2 /\ str[2] \in EscapeClass
       THEN <<str[2]>> \o unescape(SubSeq(str, 3, Len(str)))
       ELSE <<Head(str)>> \o unescape(Tail(str))

RECURSIVE hscChars(_)
hscChars(str) ==
  IF str = <<>> THEN <<>>
  ELSE (CASE Head(str) = "&" -> <<"&", "a", "m", "p", ";">>
          [] Head(str) = "<" -> <<"&", "l", "t", ";">>
          [] Head(str) = ">" -> <<"&", "g", "t", ";">>
          [] Head(str) = "\"" -> <<"&", "q", "u", "o", "t", ";">>
          [] Head(str) = "'" -> <<"&", "a", "p", "o", "s", ";">>
          [] OTHER -> <<Head(str)>>) \o hscChars(Tail(str))

hsc(str) ==
  IF hscChars(str) = <<"-", "-", "-", " ">>
  THEN <<"&", "m", "d", "a", "s", "h", ";", " ">>
  ELSE hscChars(str)

spaces(indent) == [k \in 1..indent |-> " "]

\* a sequence of characters as one string
RECURSIVE Str(_)
Str(s) == IF s = <<>> THEN "" ELSE Head(s) \o Str(Tail(s))

\* the concatenation of a sequence of sequences, sep between them
RECURSIVE join(_, _)
join(ss, sep) ==
  IF ss = <<>> THEN <<>>
  ELSE IF Len(ss) = 1 THEN ss[1]
  ELSE ss[1] \o sep \o join(Tail(ss), sep)

---------------------------------------------------------------------------
(* The block recognizers' regular expressions.  Each gives whether the     *)
(* line matches and the groups the handler reads.                          *)

\* ( +)(.+)$ from index i: the spaces and, after them, a text of one
\* character or more; the spaces give back one when nothing follows them.
\* The text runs to the end of the line, so it holds no line terminator.
SpacesText(s, i) ==
  LET n == Run(s, i, " ")
      rest == SliceFrom(s, i + n)
  IN  IF ~NoTerminator(rest) THEN [m |-> FALSE, spaces |-> 0, text |-> <<>>]
      ELSE IF n >= 1 /\ rest # <<>> THEN [m |-> TRUE, spaces |-> n, text |-> rest]
      ELSE IF n >= 2 THEN [m |-> TRUE, spaces |-> n - 1, text |-> <<" ">>]
      ELSE [m |-> FALSE, spaces |-> 0, text |-> <<>>]

\* /^```(?<lang>.*?)((:)(?<path>.*))?$/
FenceRe(head) ==
  LET rest == SliceFrom(head, 3)
      k == IndexOf(rest, ":", 0)
  IN  [m |-> startsWith(head, <<BT, BT, BT>>) /\ NoTerminator(rest),
       lang |-> Slice(rest, 0, k),
       path |-> IF k < Len(rest) THEN SliceFrom(rest, k + 1) ELSE Undefined]

\* the shortest symbol of /^:::((?<symbol>.+?)((?<spaces> +)(?<text>.*))*){0,1}$/:
\* it ends at the end of the line or before a space
RECURSIVE SymbolEnd(_, _)
SymbolEnd(rest, k) ==
  IF k >= Len(rest) \/ At(rest, k) = " " THEN k ELSE SymbolEnd(rest, k + 1)

DetailsRe(head) ==
  LET rest == SliceFrom(head, 3)
      k == SymbolEnd(rest, 1)
      n == Run(rest, k, " ")
  IN  IF ~startsWith(head, <<":", ":", ":">>) \/ ~NoTerminator(rest) THEN [m |-> FALSE]
      ELSE IF rest = <<>>
      THEN [m |-> TRUE, symbol |-> Undefined, spaces |-> NoLevel, text |-> Undefined]
      ELSE IF k >= Len(rest)
      THEN [m |-> TRUE, symbol |-> rest, spaces |-> NoLevel, text |-> Undefined]
      ELSE [m |-> TRUE, symbol |-> Slice(rest, 0, k), spaces |-> n,
            text |-> SliceFrom(rest, k + n)]

HtmlTags == {<<"i", "f", "r", "a", "m", "e">>, <<"d", "i", "v">>, <<"s", "p", "a", "n">>,
             <<"p">>, <<"p", "r", "e">>, <<"c", "o", "d", "e">>, <<"!", "-", "-">>}

\* /^( *)\<(\/{0,1})(iframe|div|span|p|pre|code|\!--).*/
HtmlRe(head) ==
  LET n == Run(head, 0, " ")
      j == IF At(head, n + 1) = "/" THEN n + 2 ELSE n + 1
  IN  At(head, n) = "<" /\ \E t \in HtmlTags : startsWith(SliceFrom(head, j), t)

\* /^(?<symbol>#+)(?<spaces> +)(?<text>.+)$/
HeadingRe(head) ==
  LET n == Run(head, 0, "#")
      st == SpacesText(head, n)
  IN  [m |-> n >= 1 /\ st.m, symbol |-> n, spaces |-> st.spaces, text |-> st.text]

RECURSIVE DigitRun(_, _)
DigitRun(s, i) == IF At(s, i) \in Digits THEN 1 + DigitRun(s, i + 1) ELSE 0

\* /^(?<indent> *)(?<number>\d+)\.(?<spaces> +)(?<text>.+)$/
OlRe(head) ==
  LET n == Run(head, 0, " ")
      d == DigitRun(head, n)
      st == SpacesText(head, n + d + 1)
  IN  [m |-> d >= 1 /\ At(head, n + d) = "." /\ st.m,
       indent |-> n, spaces |-> st.spaces, text |-> st.text]

\* /^(?<indent> *)\-(?<spaces> +)(?<text>.+)$/
UlRe(head) ==
  LET n == Run(head, 0, " ")
      st == SpacesText(head, n + 1)
  IN  [m |-> At(head, n) = "-" /\ st.m,
       indent |-> n, spaces |-> st.spaces, text |-> st.text]

\* /^(\:)(?<spaces> +)(?<text>.+)$/
DlRe(head) ==
  LET st == SpacesText(head, 1)
  IN  [m |-> At(head, 0) = ":" /\ st.m, spaces |-> st.spaces, text |-> st.text]

\* /^(\>)(?<spaces> +)(?<text>.+)$/
BlockquoteRe(head) ==
  LET st == SpacesText(head, 1)
  IN  [m |-> At(head, 0) = ">" /\ st.m, spaces |-> st.spaces, text |-> st.text]

CaptionPrefix == <<"C", "a", "p", "t", "i", "o", "n", ":", " ">>

\* /^Caption: (?<caption>.+)$/
CaptionRe(head) ==
  [m |-> /\ startsWith(head, CaptionPrefix)
         /\ Len(head) > Len(CaptionPrefix)
         /\ NoTerminator(SliceFrom(head, Len(CaptionPrefix))),
   caption |-> SliceFrom(head, Len(CaptionPrefix))]

\* /^\|(?<row>.*)\|$/
TableRe(head) ==
  [m |-> /\ Len(head) >= 2
         /\ Head(head) = "|"
         /\ head[Len(head)] = "|"
         /\ NoTerminator(Slice(head, 1, Len(head) - 1)),
   row |-> Slice(head, 1, Len(head) - 1)]

\* /^( *)$/
SpaceOnlyRe(head) == Run(head, 0, " ") = Len(head)

\* what stands for ast in parse(rest, null): reading ast.name throws
NullAst == [name |-> "null"]

\* the recognizer of parse that takes the line, in the order parse tries them;
\* with ast null the test ast.name === `pre` throws a TypeError for every
\* line that is not a fence line
Recognizer(head, ast) ==
  CASE FenceRe(head).m -> "pre"
    [] ast = NullAst -> "nullast"
    [] ast.name = "pre" -> "pretext"
    [] DetailsRe(head).m -> "details"
    [] HtmlRe(head) -> "html"
    [] head = <<>> -> "blank"
    [] HeadingRe(head).m -> "heading"
    [] OlRe(head).m -> "ol"
    [] UlRe(head).m -> "ul"
    [] DlRe(head).m -> "dl"
    [] BlockquoteRe(head).m -> "blockquote"
    [] CaptionRe(head).m -> "table_caption"
    [] TableRe(head).m -> "table"
    [] SpaceOnlyRe(head) -> "spaceonly"
    [] OTHER -> "p"

---------------------------------------------------------------------------
(* The Node class.                                                         *)

\* new Node({name, type}): the defaults of the constructor
Node(name, type) ==
  [name |-> name, type |-> type, parent |-> Null, level |-> NoLevel,
   text |-> Undefined, attr |-> <<>>, aligns |-> <<>>, children |-> <<>>]

\* the arena with one more object; its id is Len(ns) + 1
Alloc(ns, n) == Append(ns, n)

appendChild(ns, this, child) ==
  [ns EXCEPT ![child].parent = this, ![this].children = Append(@, child)]

RECURSIVE appendChildren(_, _, _)
appendChildren(ns, this, children) ==
  IF children = <<>> THEN ns
  ELSE appendChildren(appendChild(ns, this, Head(children)), this, Tail(children))

\* node({name, type, ..., children}): the object n allocated, the children attached
NewNode(ns, n, children) == appendChildren(Alloc(ns, n), Len(ns) + 1, children)

lastChild(ns, this) ==
  IF ns[this].children = <<>> THEN Null ELSE ns[this].children[Len(ns[this].children)]

addText(ns, this, text) ==
  appendChild(Alloc(ns, [Node("text", "inline") EXCEPT !.text = unescape(text)]),
              this, Len(ns) + 1)

\* a key of an attribute map is the sequence of its characters
Key(name) ==
  CASE name = "translate" -> <<"t", "r", "a", "n", "s", "l", "a", "t", "e">>
    [] name = "href" -> <<"h", "r", "e", "f">>
    [] name = "loading" -> <<"l", "o", "a", "d", "i", "n", "g">>
    [] name = "decoding" -> <<"d", "e", "c", "o", "d", "i", "n", "g">>
    [] name = "src" -> <<"s", "r", "c">>
    [] name = "alt" -> <<"a", "l", "t">>
    [] name = "title" -> <<"t", "i", "t", "l", "e">>
    [] name = "align" -> <<"a", "l", "i", "g", "n">>
    [] name = "lang" -> <<"l", "a", "n", "g">>
    [] name = "path" -> <<"p", "a", "t", "h">>
    [] name = "cite" -> <<"c", "i", "t", "e">>
    [] name = "class" -> <<"c", "l", "a", "s", "s">>
    [] name = "data-code" -> <<"d", "a", "t", "a", "-", "c", "o", "d", "e">>
    [] name = "data-path" -> <<"d", "a", "t", "a", "-", "p", "a", "t", "h">>
    [] name = "id" -> <<"i", "d">>
    [] name = "checked" -> <<"c", "h", "e", "c", "k", "e", "d">>

\* map({k: v, ...}) and Map.get / Map.set / Map.delete / Map.has
has(attr, k) == \E j \in 1..Len(attr) : attr[j].k = k

get(attr, k) ==
  IF has(attr, k) THEN attr[CHOOSE j \in 1..Len(attr) : attr[j].k = k].v ELSE Undefined

set(attr, k, v) ==
  IF has(attr, k) THEN [j \in 1..Len(attr) |-> IF attr[j].k = k THEN [k |-> k, v |-> v] ELSE attr[j]]
  ELSE Append(attr, [k |-> k, v |-> v])

delete(attr, k) == SelectSeq(attr, LAMBDA e : e.k # k)

\* rise(ast, name): Null when the walk leaves the tree
RECURSIVE rise(_, _, _)
rise(ns, ast, name) ==
  IF ast = Null THEN Null
  ELSE IF ns[ast].name # "root" /\ ns[ast].name # name THEN rise(ns, ns[ast].parent, name)
  ELSE ast

---------------------------------------------------------------------------
(* The inline parser.  A production gives how it ended (out: "ok", "throw" *)
(* for an Error, "loop" for a loop that never ends), the arena, the node   *)
(* it made (child) or the nodes (children), and the index it stopped at.   *)

Ok(ns, child, i) ==
  [out |-> "ok", err |-> NoError, ns |-> ns, child |-> child, children |-> <<>>, i |-> i]

Throw(ns, msg, input) ==
  [out |-> "throw", err |-> [msg |-> msg, input |-> input], ns |-> ns, child |-> Null,
   children |-> <<>>, i |-> 0]

Diverge(ns) ==
  [out |-> "loop", err |-> NoError, ns |-> ns, child |-> Null, children |-> <<>>, i |-> 0]

\* the scanning loop of code: the index of the closing backtick, -1 when
\* the index passes the end of the line
RECURSIVE codeScan(_, _)
codeScan(input, i) ==
  IF i > Len(input) THEN -1
  ELSE IF At(input, i) = "\\" THEN codeScan(input, i + 2)
  ELSE IF At(input, i) = BT THEN i
  ELSE codeScan(input, i + 1)

code(ns, input, i) ==
  LET ns1 == Alloc(ns, [Node("code", "inline") EXCEPT
                          !.attr = <<[k |-> Key("translate"), v |-> <<"n", "o">>]>>])
      child == Len(ns1)
      e == codeScan(input, i)
  IN  IF e = -1 THEN Throw(ns1, "unmatched </code>", input)
      ELSE IF At(input, e - 1) = " " THEN Throw(ns1, "too many spaces in", input)
      ELSE Ok(IF i < e THEN addText(ns1, child, Slice(input, i, e)) ELSE ns1, child, e + 1)

RECURSIVE emLoop(_, _, _, _, _)
emLoop(ns, input, i, text_start, child) ==
  IF i > Len(input) THEN Throw(ns, "unmatched </em>", input)
  ELSE IF At(input, i) = "\\" THEN emLoop(ns, input, i + 2, text_start, child)
  ELSE IF At(input, i) = "*"
  THEN IF At(input, i - 1) = " " THEN Throw(ns, "too many spaces in", input)
       ELSE Ok(IF text_start < i THEN addText(ns, child, Slice(input, text_start, i)) ELSE ns,
               child, i + 1)
  ELSE IF At(input, i) = BT
  THEN LET ns1 == IF text_start < i THEN addText(ns, child, Slice(input, text_start, i)) ELSE ns
           inline_code == code(ns1, input, i + 1)
       IN  IF inline_code.out # "ok" THEN inline_code
           ELSE emLoop(appendChild(inline_code.ns, child, inline_code.child), input,
                       inline_code.i, inline_code.i, child)
  ELSE emLoop(ns, input, i + 1, text_start, child)

em(ns, input, i) == emLoop(Alloc(ns, Node("em", "inline")), input, i, i, Len(ns) + 1)

RECURSIVE strongLoop(_, _, _, _, _)
strongLoop(ns, input, i, text_start, child) ==
  IF i > Len(input) THEN Throw(ns, "unmatched </strong>", input)
  ELSE IF At(input, i) = "\\" THEN strongLoop(ns, input, i + 2, text_start, child)
  ELSE IF At(input, i) = "*" /\ At(input, i + 1) = "*"
  THEN IF At(input, i - 1) = " " THEN Throw(ns, "too many spaces in", input)
       ELSE Ok(IF text_start < i THEN addText(ns, child, Slice(input, text_start, i)) ELSE ns,
               child, i + 2)
  ELSE IF At(input, i) = BT
  THEN LET ns1 == IF text_start < i THEN addText(ns, child, Slice(input, text_start, i)) ELSE ns
           inline_code == code(ns1, input, i + 1)
       IN  IF inline_code.out # "ok" THEN inline_code
           ELSE strongLoop(appendChild(inline_code.ns, child, inline_code.child), input,
                           inline_code.i, inline_code.i, child)
  ELSE strongLoop(ns, input, i + 1, text_start, child)

strong(ns, input, i) == strongLoop(Alloc(ns, Node("strong", "inline")), input, i, i, Len(ns) + 1)

\* the loop over the url of link: the index of the closing parenthesis, or
\* where the index left the line
RECURSIVE urlScan(_, _)
urlScan(input, i) ==
  IF i >= Len(input) THEN i
  ELSE IF At(input, i) = "\\" THEN urlScan(input, i + 2)
  ELSE IF At(input, i) = ")" THEN i
  ELSE urlScan(input, i + 1)

\* link after its first loop, i at the `]` of `](` or past the end of the line
linkTail(ns, input, i, start, text_start, child) ==
  IF At(input, start) = " " THEN Throw(ns, "too many spaces in", input)
  ELSE IF At(input, i - 1) = " " THEN Throw(ns, "too many spaces in", input)
  ELSE IF At(input, i + 2) = " " THEN Throw(ns, "too many spaces in", input)
  ELSE LET e == urlScan(input, i + 2)
           href == Slice(input, i + 2, e)
       IN  IF At(input, e - 1) = " " THEN Throw(ns, "too many spaces in", input)
           ELSE Ok(addText([ns EXCEPT ![child].attr = <<[k |-> Key("href"), v |-> href]>>],
                           child, Slice(input, text_start, i)),
                   child, e + 1)

RECURSIVE linkLoop(_, _, _, _, _, _)
linkLoop(ns, input, i, start, text_start, child) ==
  IF i >= Len(input) THEN linkTail(ns, input, i, start, text_start, child)
  ELSE IF At(input, i) = "\\" THEN linkLoop(ns, input, i + 2, start, text_start, child)
  ELSE IF At(input, i) = BT
  THEN LET ns1 == IF text_start < i THEN addText(ns, child, Slice(input, text_start, i)) ELSE ns
           inline_code == code(ns1, input, i + 1)
       IN  IF inline_code.out # "ok" THEN inline_code
           ELSE linkLoop(appendChild(inline_code.ns, child, inline_code.child), input,
                         inline_code.i, start, inline_code.i, child)
  ELSE IF At(input, i) = "[" /\ IndexOf(input, "]", i) = Len(input)
  THEN Diverge(ns)   \* while (input[i] !== `]`) i++ finds no `]`
  ELSE LET j == IF At(input, i) = "[" THEN IndexOf(input, "]", i) + 1 ELSE i
       IN  IF At(input, j) = "]"
           THEN IF At(input, j + 1) = "("
                THEN linkTail(ns, input, j, start, text_start, child)
                ELSE Ok(Alloc(ns, [Node("text", "inline") EXCEPT
                                     !.text = Slice(input, text_start - 1, j)]),
                        Len(ns) + 1, j)
           ELSE linkLoop(ns, input, j + 1, start, text_start, child)

link(ns, input, i) == linkLoop(Alloc(ns, Node("a", "inline")), input, i, i, i, Len(ns) + 1)

short_link(ns, input, i) ==
  LET e == IndexOf(input, ">", i)
      href == Slice(input, i, e)
  IN  IF e >= Len(input)
      THEN Ok(Alloc(ns, [Node("text", "inline") EXCEPT !.text = <<"<">> \o Slice(input, i, e)]),
              Len(ns) + 1, Max(i, e))
      ELSE IF At(input, i) = " " THEN Throw(ns, "too many spaces in", input)
      ELSE IF At(input, e - 1) = " " THEN Throw(ns, "too many spaces in", input)
      ELSE Ok(addText(Alloc(ns, [Node("a", "inline") EXCEPT
                                   !.attr = <<[k |-> Key("href"), v |-> href]>>]),
                      Len(ns) + 1, href),
              Len(ns) + 1, e + 1)

RECURSIVE smartEnd(_, _)
smartEnd(input, i) ==
  IF i >= Len(input) \/ At(input, i) \in {" ", ")"} THEN i ELSE smartEnd(input, i + 1)

smart_link(ns, input, i) ==
  LET e == smartEnd(input, i)
      href == Slice(input, i, e)
  IN  Ok(addText(Alloc(ns, [Node("a", "inline") EXCEPT !.attr = <<[k |-> Key("href"), v |-> href]>>]),
                 Len(ns) + 1, href),
         Len(ns) + 1, e)

RECURSIVE altEnd(_, _)
altEnd(input, i) ==
  IF i >= Len(input) \/ (At(input, i) = "]" /\ At(input, i + 1) = "(") THEN i
  ELSE altEnd(input, i + 1)

\* the loop that looks for the closing quote of the title: its index, -1
\* when the index passes the end of the line
RECURSIVE titleEnd(_, _, _)
titleEnd(input, i, title_open) ==
  IF i > Len(input) - 1 THEN -1
  ELSE IF At(input, i) = title_open /\ At(input, i + 1) = ")" THEN i
  ELSE titleEnd(input, i + 1, title_open)

img(ns, input, i) ==
  LET a == altEnd(input, i)
      alt == Slice(input, i, a)
      url_start == a + 2
      e == smartEnd(input, url_start)
      title_exists == At(input, e) = " "
      src == Slice(input, url_start, e)
      attr == <<[k |-> Key("loading"), v |-> <<"l", "a", "z", "y">>],
                [k |-> Key("decoding"), v |-> <<"a", "s", "y", "n", "c">>],
                [k |-> Key("src"), v |-> src], [k |-> Key("alt"), v |-> alt]>>
      title_open == At(input, e + 1)
      title_start == e + 2
      t == titleEnd(input, title_start, title_open)
  IN  IF At(input, a - 1) = " " THEN Throw(ns, "too many spaces in", input)
      ELSE IF At(input, url_start + 1) = " " THEN Throw(ns, "too many spaces in", input)
      ELSE IF title_exists /\ url_start = e THEN Throw(ns, "too many spaces in", input)
      ELSE IF ~title_exists
      THEN Ok(Alloc(ns, [Node("img", "block") EXCEPT !.attr = attr]), Len(ns) + 1, e + 1)
      ELSE IF title_open \notin {"'", "\""}
      THEN Throw(ns, "invalid ![img]() title open in", input)
      ELSE IF At(input, title_start) = " " THEN Throw(ns, "too many spaces in", input)
      ELSE IF t = -1 THEN Throw(ns, "invalid ![img]() title close in", input)
      ELSE IF At(input, t - 1) = " " THEN Throw(ns, "too many spaces in", input)
      ELSE Ok(Alloc(ns, [Node("img", "block") EXCEPT
                           !.attr = set(attr, Key("title"), Slice(input, title_start, t))]),
              Len(ns) + 1, t + 2)

\* input[i - 1] === ` ` && input[i - 2] === ` `
SpacesBefore(input, i) == At(input, i - 1) = " " /\ At(input, i - 2) = " "

\* the `http://` and `https://` conditions of inline_parse
HttpAt(input, i) ==
  \/ /\ Slice(input, i, i + 7) = <<"h", "t", "t", "p", ":", "/", "/">>
     /\ At(input, i + 7) \notin {" ", NoChar}
  \/ /\ Slice(input, i, i + 8) = <<"h", "t", "t", "p", "s", ":", "/", "/">>
     /\ At(input, i + 8) \notin {" ", NoChar}

RECURSIVE inline_parse(_, _, _)
RECURSIVE inlineLoop(_, _, _, _, _)

inline_blockquote(ns, input, _i) ==
  LET quoted(r) ==
        LET p == Len(r.ns) + 1
            ns1 == NewNode(r.ns, Node("p", "inline"), r.children)
            child == Len(ns1) + 1
        IN  IF r.out # "ok" THEN r
            ELSE Ok(appendChild(Alloc(ns1, Node("blockquote", "block")), child, p),
                    child, r.i)
  IN  quoted(inline_parse(ns, input, _i))

\* what inline_parse does with the node a production made: the check of
\* the spaces after it (when the branch has one), start = i, appendChild
Produced(r, input, parent, check) ==
  IF r.out # "ok" THEN r
  ELSE IF check /\ At(input, r.i) = " " /\ At(input, r.i + 1) = " "
  THEN Throw(r.ns, "too many spaces after", input)
  ELSE inlineLoop(appendChild(r.ns, parent, r.child), input, r.i, r.i, parent)

inlineLoop(ns, input, i, start, parent) ==
  LET c == At(input, i)
      flushed == IF start < i THEN addText(ns, parent, Slice(input, start, i)) ELSE ns
  IN  IF i >= Len(input)
      THEN IF start < i
           THEN IF At(input, i - 1) = " " THEN Throw(ns, "too many spaces around", input)
                ELSE [Ok(flushed, Null, i) EXCEPT !.children = flushed[parent].children]
           ELSE [Ok(ns, Null, i) EXCEPT !.children = ns[parent].children]
      ELSE IF c = "\\" THEN inlineLoop(ns, input, i + 2, start, parent)
      ELSE IF c = "*" /\ At(input, i + 1) = "*"
      THEN IF SpacesBefore(input, i) THEN Throw(ns, "too many spaces before", input)
           ELSE IF At(input, i + 2) = " " THEN Throw(ns, "too many spaces in", input)
           ELSE Produced(strong(flushed, input, i + 2), input, parent, TRUE)
      ELSE IF c = "*"
      THEN IF SpacesBefore(input, i) THEN Throw(ns, "too many spaces before", input)
           ELSE IF At(input, i + 1) = " " THEN Throw(ns, "too many spaces in", input)
           ELSE Produced(em(flushed, input, i + 1), input, parent, TRUE)
      ELSE IF c = BT
      THEN IF SpacesBefore(input, i) THEN Throw(ns, "too many spaces before", input)
           ELSE IF At(input, i + 1) = " " THEN Throw(ns, "too many spaces in", input)
           ELSE Produced(code(flushed, input, i + 1), input, parent, TRUE)
      ELSE IF c = "["
      THEN IF SpacesBefore(input, i) THEN Throw(ns, "too many spaces before", input)
           ELSE Produced(link(flushed, input, i + 1), input, parent, TRUE)
      ELSE IF c = "<"
      THEN IF SpacesBefore(input, i) THEN Throw(ns, "too many spaces before", input)
           ELSE Produced(short_link(flushed, input, i + 1), input, parent, TRUE)
      ELSE IF c = ">" /\ At(input, i + 1) = " " /\ (i = 0 \/ At(input, i - 1) = " ")
      THEN IF start < i THEN inlineLoop(ns, input, i + 1, start, parent)
           ELSE IF At(input, i - 1) = " " THEN Throw(ns, "too many spaces in", input)
           ELSE Produced(inline_blockquote(ns, input, i + 2), input, parent, FALSE)
      ELSE IF c = "!" /\ At(input, i + 1) = "["
      THEN IF SpacesBefore(input, i) THEN Throw(ns, "too many spaces before", input)
           ELSE IF At(input, i + 2) = " " THEN Throw(ns, "too many spaces in", input)
           ELSE Produced(img(flushed, input, i + 2), input, parent, TRUE)
      ELSE IF HttpAt(input, i)
      THEN Produced(smart_link(flushed, input, i), input, parent, FALSE)
      ELSE inlineLoop(ns, input, i + 1, start, parent)

inline_parse(ns, input, i) ==
  inlineLoop(Alloc(ns, Node("parent", "inline")), input, i, i, Len(ns) + 1)

\* inline(input): the children of inline_parse(input, 0)
inline(ns, input) == inline_parse(ns, input, 0)

---------------------------------------------------------------------------
(* The block handlers of decode.  A handler gives how the line ended       *)
(* (out: "parsing" when parse goes on with the rest, "throw" for an Error  *)
(* of the parser, "typeerror" for a TypeError of the runtime on a null or  *)
(* undefined value, "undefined" when the handler returns no node, "loop"), *)
(* the arena and the cursor parse goes on with.                            *)

Cont(ns, ast) == [out |-> "parsing", err |-> NoError, ns |-> ns, cursor |-> ast]

Thrown(ns, msg, input, ast) ==
  [out |-> "throw", err |-> [msg |-> msg, input |-> input], ns |-> ns, cursor |-> ast]

TypeError(ns, ast) == [out |-> "typeerror", err |-> NoError, ns |-> ns, cursor |-> ast]

NoReturn(ns, ast) == [out |-> "undefined", err |-> NoError, ns |-> ns, cursor |-> ast]

\* an inline parse that did not end well, as the outcome of the line
Failed(r, ast) == [out |-> r.out, err |-> r.err, ns |-> r.ns, cursor |-> ast]

\* parse(rest, ast) after a walk up the tree: the walk (rise, or a loop
\* over ast.parent) has thrown a TypeError when it left the tree (Null)
parseWith(ns, ast) == IF ast = Null THEN TypeError(ns, ast) ELSE Cont(ns, ast)

\* the reduce of heading: a text node that follows a text node is merged
\* into it
RECURSIVE mergeText(_, _, _)
mergeText(ns, children, acc) ==
  IF children = <<>> THEN [ns |-> ns, children |-> acc]
  ELSE IF ns[Head(children)].name = "text" /\ acc # <<>> /\ ns[acc[Len(acc)]].name = "text"
  THEN mergeText([ns EXCEPT ![acc[Len(acc)]].text = @ \o ns[Head(children)].text],
                 Tail(children), acc)
  ELSE mergeText(ns, Tail(children), Append(acc, Head(children)))

\* while (ast.level > level - 1) ast = ast.parent
RECURSIVE riseToLevel(_, _, _)
riseToLevel(ns, ast, level) ==
  IF ast = Null THEN Null
  ELSE IF ns[ast].level # NoLevel /\ ns[ast].level > level - 1
  THEN riseToLevel(ns, ns[ast].parent, level)
  ELSE ast

\* where heading puts the new section: under the cursor, beside it, or
\* under an ancestor; an undefined level compares false
sectionParent(ns, ast, level) ==
  IF ns[ast].level # NoLevel /\ ns[ast].level < level THEN ast
  ELSE IF ns[ast].level = level THEN ns[ast].parent
  ELSE riseToLevel(ns, ast, level)

heading(ns, head, ast) ==
  LET g == HeadingRe(head)
      level == g.symbol
      section == Len(ns) + 1
      ns1 == Alloc(ns, [Node("section", "block") EXCEPT !.level = level])
      \* the section once its heading is made of the children r
      placed(ns3) ==
        LET to == sectionParent(ns3, ast, level)
        IN  IF ns[ast].level # NoLevel /\ ns[ast].level < level
               /\ ns[ast].level # level - 1
            THEN Thrown(ns3, "invalid sectioning", head, ast)
            ELSE IF to = Null THEN TypeError(ns3, ast)
            ELSE Cont(appendChild(ns3, to, section), section)
      titled(merged) ==
        placed(appendChild(NewNode(merged.ns,
                                   [Node("heading", "inline") EXCEPT !.level = level],
                                   merged.children),
                           section, Len(merged.ns) + 1))
      parsed(r) ==
        IF r.out # "ok" THEN Failed(r, ast)
        ELSE titled(mergeText(r.ns, r.children, <<>>))
  IN  IF g.spaces > 1 THEN Thrown(ns, "too many spaces in", head, ast)
      ELSE IF startsWith(g.text, <<" ">>) \/ endsWith(g.text, <<" ">>)
      THEN Thrown(ns, "too many spaces in", head, ast)
      ELSE parsed(inline(ns1, g.text))

\* a variant of riseToList that stops at the first list of the name,
\* whatever its level
RECURSIVE riseToKind(_, _, _, _)
riseToKind(ns, ast, name, level) ==
  IF ast = Null THEN Null
  ELSE IF ns[ast].name = name THEN ast
  ELSE riseToKind(ns, ns[ast].parent, name, level)

\* while (true) { if (ast.name === name && ast.level === level) break; ast = ast.parent }
RECURSIVE riseToList(_, _, _, _)
riseToList(ns, ast, name, level) ==
  IF ast = Null THEN Null
  ELSE IF ns[ast].name = name /\ ns[ast].level = level THEN ast
  ELSE riseToList(ns, ns[ast].parent, name, level)

list(ns, name, g, head, ast) ==
  LET level == g.indent \div 2
      \* the rest of list once the li is made: ns1 is the arena with the li
      item(ns1, li) ==
        LET new == li + 1
            ns2 == Alloc(ns1, [Node(name, "block") EXCEPT !.level = level])
            up == riseToList(ns1, ast, name, level)
        IN  IF ns[ast].name \in {"ul", "ol"}
            THEN IF ns[ast].level = level THEN Cont(appendChild(ns1, ast, li), ast)
                 ELSE IF ns[ast].level = level - 1
                 THEN IF lastChild(ns1, ast) = Null THEN TypeError(ns2, ast)
                      ELSE Cont(appendChild(appendChild(ns2, new, li),
                                            lastChild(ns1, ast), new), new)
                 ELSE IF ns[ast].level > level
                 THEN IF up = Null THEN TypeError(ns1, ast)
                      ELSE Cont(appendChild(ns1, up, li), up)
                 ELSE NoReturn(ns1, ast)
            ELSE Cont(appendChild(appendChild(ns2, new, li), ast, new), new)
      parsed(r) ==
        IF r.out # "ok" THEN Failed(r, ast)
        ELSE item(NewNode(r.ns, [Node("li", "inline") EXCEPT !.level = level], r.children),
                  Len(r.ns) + 1)
  IN  IF g.spaces > 1 THEN Thrown(ns, "too many spaces in", head, ast)
      ELSE IF endsWith(g.text, <<" ">>) THEN Thrown(ns, "too many spaces in", head, ast)
      ELSE IF g.indent % 2 # 0 THEN Thrown(ns, "odd indent in list", head, ast)
      ELSE parsed(inline(ns, g.text))

dl(ns, head, ast) ==
  LET g == DlRe(head)
      prev == lastChild(ns, ast)
      \* the branch of a preceding <p>
      popped == [ns EXCEPT ![ast].children = SubSeq(@, 1, Len(@) - 1)]
      div == Len(ns) + 1
      dt == div + 1
      nsA == [NewNode(Alloc(popped, Node("div", "block")), Node("dt", "inline"),
                      ns[prev].children) EXCEPT ![prev].children = <<>>]
      grouped(nsB) ==
        LET parent == lastChild(nsB, ast)
            newdl == Len(nsB) + 1
        IN  IF parent # Null /\ nsB[parent].name = "dl"
            THEN Cont(appendChild(nsB, parent, div), ast)
            ELSE Cont(appendChild(appendChild(Alloc(nsB, Node("dl", "block")), newdl, div),
                                  ast, newdl), ast)
      parsedA(rA) ==
        IF rA.out # "ok" THEN Failed(rA, ast)
        ELSE grouped(appendChild(appendChild(NewNode(rA.ns, Node("dd", "inline"),
                                                     rA.children),
                                             div, dt), div, Len(rA.ns) + 1))
      \* the branch of a preceding <dl>
      parsedC(rC) ==
        IF rC.out # "ok" THEN Failed(rC, ast)
        ELSE IF lastChild(ns, prev) = Null
        THEN TypeError(NewNode(rC.ns, Node("dd", "inline"), rC.children), ast)
        ELSE Cont(appendChild(NewNode(rC.ns, Node("dd", "inline"), rC.children),
                              lastChild(ns, prev), Len(rC.ns) + 1), ast)
  IN  IF g.spaces > 1 THEN Thrown(ns, "too many spaces in", head, ast)
      ELSE IF endsWith(g.text, <<" ">>) THEN Thrown(ns, "too many spaces around", head, ast)
      ELSE IF prev # Null /\ ns[prev].name = "p" THEN parsedA(inline(nsA, g.text))
      ELSE IF prev # Null /\ ns[prev].name = "dl" THEN parsedC(inline(ns, g.text))
      ELSE Thrown(ns, "invalid <dd>", head, ast)

table_caption(ns, head, ast) ==
  LET thead == Len(ns) + 1
      table == thead + 1
      figcaption == thead + 2
      figure == thead + 3
      ns1 == Alloc(ns, [Node("thead", "block") EXCEPT !.level = 0])
      ns2 == NewNode(ns1, [Node("table", "block") EXCEPT !.level = 0], <<thead>>)
      ns3 == Alloc(ns2, [Node("figcaption", "inline") EXCEPT
                           !.level = 0, !.text = CaptionRe(head).caption])
      ns4 == NewNode(ns3, [Node("figure", "block") EXCEPT !.level = 0], <<figcaption, table>>)
  IN  Cont(appendChild(ns4, ast, figure), thead)

Left == <<"l", "e", "f", "t">>
Right == <<"r", "i", "g", "h", "t">>
Center == <<"c", "e", "n", "t", "e", "r">>

\* the alignment a column of the separator row gives
alignOf(column) ==
  LET start == startsWith(column, <<":">>)
      end == endsWith(column, <<":">>)
  IN  IF start = end THEN Center ELSE IF start THEN Left ELSE Right

\* aligns.at(i), i from 0
alignAt(aligns, i) == IF i < Len(aligns) THEN aligns[i + 1] ELSE Undefined

\* tr.children.forEach((th, i) => th.attr.set(`align`, aligns.at(i)))
RECURSIVE setAligns(_, _, _, _)
setAligns(ns, cells, aligns, i) ==
  IF i >= Len(cells) THEN ns
  ELSE setAligns([ns EXCEPT ![cells[i + 1]].attr = set(@, Key("align"), alignAt(aligns, i))],
                 cells, aligns, i + 1)

\* the cells of a row, one for each column from column i on: th without
\* attributes in a thead, td with the column's align in a tbody
RECURSIVE cells(_, _, _, _, _, _)
cells(ns, columns, i, name, aligns, made) ==
  IF i >= Len(columns) THEN [Ok(ns, Null, 0) EXCEPT !.children = made]
  ELSE LET attr == IF name = "td" THEN <<[k |-> Key("align"), v |-> alignAt(aligns, i)]>> ELSE <<>>
           parsed(r) ==
             IF r.out # "ok" THEN r
             ELSE cells(NewNode(r.ns, [Node(name, "inline") EXCEPT !.attr = attr],
                                r.children),
                        columns, i + 1, name, aligns, Append(made, Len(r.ns) + 1))
       IN  parsed(inline(ns, trim(columns[i + 1])))

\* a faulty table, to test C7 against: without the check of the caption a
\* row is dropped
table_unchecked(ns, head, ast) == Cont(ns, ast)

table(ns, head, ast) ==
  LET row == TableRe(head).row
      columns == split(row, "|")
      \* the separator row
      aligns == [j \in 1..Len(columns) |-> alignOf(columns[j])]
      tr0 == IF ns[ast].children = <<>> THEN Null ELSE ns[ast].children[1]
      tbody == Len(ns) + 1
      nsS == Alloc(setAligns(ns, ns[tr0].children, aligns, 0),
                   [Node("tbody", "block") EXCEPT !.aligns = aligns])
      \* a row of cells
      rowOf(c) ==
        IF c.out # "ok" THEN Failed(c, ast)
        ELSE Cont(appendChild(NewNode(c.ns, [Node("tr", "block") EXCEPT !.level = 0],
                                      c.children),
                              ast, Len(c.ns) + 1), ast)
  IN  IF ns[ast].parent = Null \/ ns[ns[ast].parent].name # "table"
      THEN Thrown(ns, "Table caption required before", head, ast)
      ELSE IF startsWith(row, <<":">>) \/ startsWith(row, <<"-">>)
      THEN IF tr0 = Null THEN TypeError(ns, ast)
           ELSE Cont(appendChild(nsS, ns[ast].parent, tbody), tbody)
      ELSE IF ns[ast].name \in {"thead", "tbody"}
      THEN rowOf(cells(ns, columns, 0, IF ns[ast].name = "thead" THEN "th" ELSE "td",
                       ns[ast].aligns, <<>>))
      ELSE NoReturn(ns, ast)

pre(ns, head, ast) ==
  LET g == FenceRe(head)
      lang == g.lang # <<>>
      path == g.path # Undefined /\ g.path # <<>>
      attr == (IF lang THEN <<[k |-> Key("lang"), v |-> g.lang]>> ELSE <<>>)
              \o (IF path THEN <<[k |-> Key("path"), v |-> g.path]>> ELSE <<>>)
      new == Len(ns) + 1
  IN  IF lang /\ (startsWith(g.lang, <<" ">>) \/ endsWith(g.lang, <<" ">>))
      THEN Thrown(ns, "too many spaces around", head, ast)
      ELSE IF path /\ (startsWith(g.path, <<" ">>) \/ endsWith(g.path, <<" ">>))
      THEN Thrown(ns, "too many spaces around", head, ast)
      ELSE IF ast = Null THEN TypeError(ns, ast)   \* ast.name of null
      ELSE IF ns[ast].name = "pre" THEN Cont(ns, ns[ast].parent)
      ELSE Cont(appendChild(Alloc(ns, [Node("pre", "block") EXCEPT !.attr = attr]), ast, new),
                new)

\* the branch of parse for a line read inside a <pre>
pretext(ns, head, ast) == Cont(addText(ns, ast, head), ast)

html(ns, head, ast) ==
  LET new == Len(ns) + 1
  IN  IF ns[ast].name # "html"
      THEN Cont(appendChild(addText(Alloc(ns, Node("html", "block")), new, head), ast, new), new)
      ELSE Cont(addText(ns, ast, head), ast)

\* the branch of parse for an empty line
blank(ns, ast) == parseWith(ns, rise(ns, ast, "section"))

blockquote(ns, head, ast) ==
  LET g == BlockquoteRe(head)
      isbq == ns[ast].name = "blockquote"
      bq == IF isbq THEN ast ELSE Len(ns) + 1
      ns1 == IF isbq THEN ns ELSE appendChild(Alloc(ns, Node("blockquote", "block")), ast, bq)
      p == Len(ns1) + 1
      ns2 == appendChild(Alloc(ns1, Node("p", "inline")), bq, p)
      \* the citation
      cited(links) ==
        LET url == get(links.ns[links.children[1]].attr, Key("href"))
            ns3 == [links.ns EXCEPT ![bq].attr = <<[k |-> Key("cite"), v |-> url]>>]
            cite == Len(ns3) + 1
            ns4 == NewNode(ns3, Node("cite", "inline"), links.children)
        IN  IF links.out # "ok" THEN Failed(links, ast)
            ELSE IF links.children = <<>> THEN TypeError(links.ns, ast)
            ELSE Cont(appendChild(addText(ns4, p, <<"-", "-", "-", " ">>), p, cite), bq)
      \* any other text
      parsed(r) ==
        IF r.out # "ok" THEN Failed(r, ast)
        ELSE Cont(appendChildren(r.ns, p, r.children), bq)
  IN  IF g.spaces > 1 THEN Thrown(ns, "too many spaces in", head, ast)
      ELSE IF endsWith(g.text, <<" ">>) THEN Thrown(ns, "too many spaces around", head, ast)
      ELSE IF startsWith(g.text, <<"-", "-", "-", " ">>)
      THEN cited(inline(ns2, SliceFrom(g.text, 4)))
      ELSE parsed(inline(ns2, g.text))

S_details == <<"d", "e", "t", "a", "i", "l", "s">>
S_message == <<"m", "e", "s", "s", "a", "g", "e">>
S_alert == <<"a", "l", "e", "r", "t">>

\* details once the line is known to open a block of class symbol with
\* the summary text
openDetails(ns, symbol, text, ast) ==
  LET isd == ns[ast].name = "details"
      d == IF isd THEN ast ELSE Len(ns) + 1
      ns1 == IF isd THEN ns
             ELSE appendChild(Alloc(ns, [Node("details", "block") EXCEPT
                                           !.attr = <<[k |-> Key("class"), v |-> symbol]>>]), ast, d)
      summary == Len(ns1) + 1
      ns2 == appendChild(addText(Alloc(ns1, Node("summary", "inline")), summary, text),
                         d, summary)
      section == Len(ns2) + 1
  IN  Cont(appendChild(Alloc(ns2, Node("section", "block")), d, section), section)

details(ns, head, ast) ==
  LET g == DetailsRe(head)
      up == rise(ns, ast, "details")
  IN  IF g.symbol = Undefined
      THEN IF up = Null THEN TypeError(ns, ast) ELSE Cont(ns, ns[up].parent)
      ELSE IF g.symbol = S_details
      THEN IF g.text = Undefined THEN TypeError(ns, ast)   \* spaces.length of undefined
           ELSE IF g.spaces > 1 THEN Thrown(ns, "too many spaces in", head, ast)
           ELSE IF Len(g.text) < 1 THEN Thrown(ns, "text required in details", head, ast)
           ELSE IF endsWith(g.text, <<" ">>)
           THEN Thrown(ns, "too many spaces around", head, ast)
           ELSE openDetails(ns, S_details, g.text, ast)
      ELSE IF g.symbol = S_message /\ g.text = S_alert
      THEN IF g.spaces > 1 THEN Thrown(ns, "too many spaces in", head, ast)
           ELSE openDetails(ns, S_alert, S_alert, ast)
      ELSE IF g.symbol = S_message
      THEN IF g.spaces > 1 THEN Thrown(ns, "too many spaces in", head, ast)
           ELSE openDetails(ns, S_message, S_message, ast)
      ELSE Thrown(ns, "start of ::: should have \"details\" or \"message\" in", head, ast)

\* ast.children.push(node({name: `p`, ...})): the new p gets no parent
p(ns, head, ast) ==
  LET parsed(r) ==
        IF r.out # "ok" THEN Failed(r, ast)
        ELSE Cont([NewNode(r.ns, Node("p", "inline"), r.children) EXCEPT
                     ![ast].children = Append(@, Len(r.ns) + 1)], ast)
  IN  parsed(inline(ns, head))

---------------------------------------------------------------------------
(* encode.  The HTML is a sequence of pieces: the characters of the texts  *)
(* and the literal parts of the templates; Str gives it as one string.  A  *)
(* function of encode gives the arena after it (encode writes to attr) and *)
(* the pieces it returned.  The functions are named enc_ after the name    *)
(* of the source where decode has a function of that name.                 *)

\* the characters of /[ "'`=<>]/
NeedsQuote == {" ", "\"", "'", BT, "=", "<", ">"}

QuoteKeys == {Key("title"), Key("alt"), Key("cite"), Key("href"), Key("id")}

\* the value null of an attribute; no value of decode is null
NullValue == <<"null">>

\* what attr_str gives: the string it returned, or the TypeError of
\* v.match on a value that is undefined
AttrOk(s) == [out |-> "ok", s |-> s]

AttrThrow == [out |-> "throw", s |-> <<>>]

\* a variant of attr_entry without the test for the underscore: it writes
\* every key
attr_shown(e) ==
  IF e.v = NullValue THEN AttrOk(<<" ">> \o e.k)
  ELSE IF e.k = Key("align") THEN AttrOk(<<" class=align-">> \o e.v)
  ELSE IF e.k \in QuoteKeys THEN AttrOk(<<" ">> \o e.k \o <<"=\"">> \o e.v \o <<"\"">>)
  ELSE IF e.v = Undefined THEN AttrThrow
  ELSE IF \A j \in 1..Len(e.v) : e.v[j] \notin NeedsQuote
  THEN AttrOk(<<" ">> \o e.k \o <<"=">> \o e.v)
  ELSE AttrOk(<<" ">> \o e.k \o <<"=\"">> \o e.v \o <<"\"">>)

\* one entry of the map of attr_str; k.startsWith(`_`) drops the entry;
\* an undefined value is written as the word undefined by the templates
\* of align and of the quoted keys, and v.match throws on it
attr_entry(e) ==
  IF startsWith(e.k, <<"_">>) THEN AttrOk(<<>>)
  ELSE IF e.v = NullValue THEN AttrOk(<<" ">> \o e.k)
  ELSE IF e.k = Key("align") THEN AttrOk(<<" class=align-">> \o e.v)
  ELSE IF e.k \in QuoteKeys THEN AttrOk(<<" ">> \o e.k \o <<"=\"">> \o e.v \o <<"\"">>)
  ELSE IF e.v = Undefined THEN AttrThrow
  ELSE IF \A j \in 1..Len(e.v) : e.v[j] \notin NeedsQuote
  THEN AttrOk(<<" ">> \o e.k \o <<"=">> \o e.v)
  ELSE AttrOk(<<" ">> \o e.k \o <<"=\"">> \o e.v \o <<"\"">>)

\* Array.from(attr).map(...).join(``): the entries in insertion order, up
\* to the first that throws
RECURSIVE attr_str(_)
attr_str(attr) ==
  IF attr = <<>> THEN AttrOk(<<>>)
  ELSE LET rest(h, t) ==
             IF h.out # "ok" THEN h ELSE IF t.out # "ok" THEN t ELSE AttrOk(h.s \o t.s)
       IN  rest(attr_entry(Head(attr)), attr_str(Tail(attr)))

\* `${node.level}`
LevelStr(level) == IF level = NoLevel THEN "undefined" ELSE ToString(level)

\* what a function of encode gives: the string it returned, or what it
\* threw, and the arena as it left it
Enc(ns, s) == [out |-> "ok", err |-> NoError, ns |-> ns, s |-> s]

EncThrow(ns, msg) == [out |-> "throw", err |-> [msg |-> msg, input |-> <<>>], ns |-> ns, s |-> <<>>]

\* the pieces before and after what r returned; what r threw goes on up
Wrap(before, r, after) ==
  IF r.out # "ok" THEN r ELSE Enc(r.ns, before \o r.s \o after)

\* hsc(node.text): str.replace of a text that is no string throws
enc_text(ns, node, indent) ==
  IF ns[node].text \in {Undefined, NullValue} THEN EncThrow(ns, "TypeError")
  ELSE Enc(ns, spaces(indent) \o hsc(ns[node].text))

enc_raw(ns, node, indent) == Enc(ns, spaces(indent) \o ns[node].text)

\* a tag whose attr_str is called before the children are serialized:
\* what attr_str throws leaves the children alone
TagFirst(ns, before, a, after, r, close) ==
  IF a.out # "ok" THEN EncThrow(ns, "TypeError")
  ELSE Wrap(before \o a.s \o after, r, close)

\* a tag whose attr_str is called after the children are serialized
TagLast(before, a, after, r, close) ==
  IF r.out # "ok" THEN r
  ELSE IF a.out # "ok" THEN EncThrow(r.ns, "TypeError")
  ELSE Enc(r.ns, before \o a.s \o after \o r.s \o close)

\* [..., node.text, ...].join(``): join writes nothing for a text that is
\* undefined or null
enc_figcaption(ns, node, indent) ==
  TagFirst(ns, spaces(indent) \o <<"<figcaption">>, attr_str(ns[node].attr), <<">">>,
           Enc(ns, IF ns[node].text \in {Undefined, NullValue} THEN <<>> ELSE ns[node].text),
           <<"</figcaption>\n">>)

\* node.children.map(({ text }) => `${spaces(indent)}${text}\n`).join(``)
RECURSIVE enc_html(_, _, _)
enc_html(ns, children, indent) ==
  IF children = <<>> THEN <<>>
  ELSE spaces(indent) \o ns[Head(children)].text \o <<"\n">>
       \o enc_html(ns, Tail(children), indent)

\* the reduce of mix_inline: the children grouped into lines, a block
\* alone, the inline nodes between blocks together; for a child that is
\* neither the callback returns undefined and the result is NoLines
\* the undefined that the reduce gives once its callback has returned
\* nothing: the next lines.push or lines.pop, or lines.length, throws
NoLines == <<[isArray |-> FALSE, items |-> <<>>]>>

RECURSIVE groupLines(_, _, _)
groupLines(ns, children, lines) ==
  IF children = <<>> THEN lines
  ELSE LET child == Head(children)
           last == lines[Len(lines)]
       IN  IF ns[child].type = "block"
           THEN groupLines(ns, Tail(children),
                           Append(lines, [isArray |-> FALSE, items |-> <<child>>]))
           ELSE IF ns[child].type # "inline" THEN NoLines
           ELSE IF lines # <<>> /\ last.isArray
           THEN groupLines(ns, Tail(children),
                           [lines EXCEPT ![Len(lines)].items = Append(@, child)])
           ELSE groupLines(ns, Tail(children),
                           Append(lines, [isArray |-> TRUE, items |-> <<child>>]))

RECURSIVE serialize(_, _, _)

\* children.map((child) => serialize(child, indent)).join(sep), the
\* children in order, each in the arena the one before it left
RECURSIVE serializeAll(_, _, _, _)
serializeAll(ns, children, indent, sep) ==
  IF children = <<>> THEN Enc(ns, <<>>)
  ELSE LET first(r) ==
             IF Len(children) = 1 \/ r.out # "ok" THEN r
             ELSE Wrap(r.s \o sep, serializeAll(r.ns, Tail(children), indent, sep), <<>>)
       IN  first(serialize(ns, Head(children), indent))

\* the children are serialized into text before the template calls
\* attr_str
enc_heading(ns, node, indent) ==
  LET name == "h" \o LevelStr(ns[node].level)
  IN  TagLast(spaces(indent) \o <<"<" \o name>>, attr_str(ns[node].attr), <<">">>,
              serializeAll(ns, ns[node].children, 0, <<>>),
              <<"</" \o name \o ">\n">>)

\* attr.set(`href`, unescape(attr.get(`href`))): str.replace of an href
\* that is null or missing throws; decode gives every a an href
enc_a(ns, node, indent) ==
  LET given == get(ns[node].attr, Key("href"))
      unescaped == [ns EXCEPT ![node].attr = set(@, Key("href"), unescape(given))]
  IN  IF given \in {Undefined, NullValue} THEN EncThrow(ns, "TypeError")
      ELSE TagFirst(unescaped, <<"<a">>, attr_str(unescaped[node].attr), <<">">>,
                    serializeAll(unescaped, ns[node].children, 0, <<>>),
                    <<"</a>">>)

enc_pre(ns, node, indent) ==
  LET attr == ns[node].attr
      lang == get(attr, Key("lang"))
      truthy == lang \notin {Undefined, NullValue, <<>>}   \* if (lang)
      classed == IF truthy
                 THEN delete(set(set(attr, Key("class"), lang), Key("data-code"), lang), Key("lang"))
                 ELSE attr
      pathed == IF has(classed, Key("path"))
                THEN delete(set(classed, Key("data-path"), get(classed, Key("path"))), Key("path"))
                ELSE classed
      lang_class == IF truthy THEN <<" class=language-">> \o lang ELSE <<>>
  IN  TagLast(spaces(indent) \o <<"<pre">>, attr_str(pathed),
              <<"><code translate=no">> \o lang_class \o <<">">>,
              serializeAll([ns EXCEPT ![node].attr = pathed], ns[node].children, 0, <<"\n">>),
              <<"</code></pre>\n">>)

enc_td(ns, node, indent) ==
  TagFirst(ns, spaces(indent) \o <<"<" \o ns[node].name>>, attr_str(ns[node].attr), <<">">>,
           serializeAll(ns, ns[node].children, 0, <<>>),
           <<"</" \o ns[node].name \o ">\n">>)

enc_dt(ns, node, indent) ==
  IF ns[node].type = "inline"
  THEN TagFirst(ns, spaces(indent) \o <<"<" \o ns[node].name>>, attr_str(ns[node].attr),
                <<">">>,
                serializeAll(ns, ns[node].children, 0, <<>>),
                <<"\n">>)
  ELSE TagFirst(ns, spaces(indent) \o <<"<" \o ns[node].name>>, attr_str(ns[node].attr),
                <<">\n">>,
                serializeAll(ns, ns[node].children, indent + 2, <<>>),
                spaces(indent) \o <<"</" \o ns[node].name \o ">\n">>)

enc_summary(ns, node, indent) ==
  TagFirst(ns, spaces(indent) \o <<"<summary">>, attr_str(ns[node].attr), <<">">>,
           serializeAll(ns, ns[node].children, 0, <<>>),
           <<"</summary>\n">>)

\* node.attr.delete(`class`)
enc_details(ns, node, indent) ==
  LET deleted == [ns EXCEPT ![node].attr = delete(@, Key("class"))]
  IN  TagFirst(deleted, spaces(indent) \o <<"<details">>, attr_str(deleted[node].attr),
               <<">\n">>,
               serializeAll(deleted, ns[node].children, indent + 2, <<>>),
               spaces(indent) \o <<"</details>\n">>)

\* lines.map(...).join(``) of mix_inline: a line of inline nodes on one
\* row at indent + 2, a block by serialize at indent + 2
RECURSIVE serializeLines(_, _, _)
serializeLines(ns, lines, indent) ==
  IF lines = <<>> THEN Enc(ns, <<>>)
  ELSE LET rest(r) ==
             IF r.out # "ok" THEN r
             ELSE Wrap(r.s, serializeLines(r.ns, Tail(lines), indent), <<>>)
       IN  IF Head(lines).isArray
           THEN rest(Wrap(spaces(indent + 2),
                          serializeAll(ns, Head(lines).items, 0, <<>>), <<"\n">>))
           ELSE rest(serialize(ns, Head(lines).items[1], indent + 2))

\* a faulty mix_inline, to test C5 against: the block form leaves out the
\* closing tag
mix_inline_unclosed(ns, node, indent) ==
  LET lines == groupLines(ns, ns[node].children, <<>>)
      open == spaces(indent) \o <<"<" \o ns[node].name>>
  IN  IF lines = NoLines THEN EncThrow(ns, "TypeError")
      ELSE IF Len(lines) = 1 /\ lines[1].isArray
      THEN TagFirst(ns, open, attr_str(ns[node].attr), <<">">>,
                    serializeAll(ns, lines[1].items, 0, <<>>), <<"\n">>)
      ELSE TagLast(open, attr_str(ns[node].attr), <<">\n">>,
                   serializeLines(ns, lines, indent), <<>>)

\* one line of inline children: the tag, then the children; otherwise the
\* lines are serialized before the template of the tag calls attr_str
mix_inline(ns, node, indent) ==
  LET lines == groupLines(ns, ns[node].children, <<>>)
      open == spaces(indent) \o <<"<" \o ns[node].name>>
  IN  IF lines = NoLines THEN EncThrow(ns, "TypeError")
      ELSE IF Len(lines) = 1 /\ lines[1].isArray
      THEN TagFirst(ns, open, attr_str(ns[node].attr), <<">">>,
                    serializeAll(ns, lines[1].items, 0, <<>>), <<"\n">>)
      ELSE TagLast(open, attr_str(ns[node].attr), <<">\n">>,
                   serializeLines(ns, lines, indent),
                   spaces(indent) \o <<"</" \o ns[node].name \o ">\n">>)

enc_root(ns, node, indent) == serializeAll(ns, ns[node].children, indent, <<>>)

enc_section(ns, node, indent) ==
  LET name == IF ns[node].level = 1 THEN "article" ELSE "section"
  IN  TagFirst(ns, spaces(indent) \o <<"<" \o name>>, attr_str(ns[node].attr), <<">\n">>,
               serializeAll(ns, ns[node].children, indent + 2, <<>>),
               spaces(indent) \o <<"</" \o name \o ">\n">>)

\* every Node of decode is inline or block: for them the throw at the end
\* of serialize is not reached
serialize(ns, node, indent) ==
  LET name == ns[node].name
      tag == <<"<" \o name>>
  IN  CASE name = "text" -> enc_text(ns, node, indent)
        [] name = "raw" -> enc_raw(ns, node, indent)
        [] name = "heading" -> enc_heading(ns, node, indent)
        [] name = "section" -> enc_section(ns, node, indent)
        [] name = "a" -> enc_a(ns, node, indent)
        [] name = "pre" -> enc_pre(ns, node, indent)
        [] name = "root" -> enc_root(ns, node, indent)
        [] name = "figcaption" -> enc_figcaption(ns, node, indent)
        [] name \in {"th", "td"} -> enc_td(ns, node, indent)
        [] name \in {"dt", "dd"} -> enc_dt(ns, node, indent)
        [] name \in {"p", "li"} -> mix_inline(ns, node, indent)
        [] name = "summary" -> enc_summary(ns, node, indent)
        [] name = "details" -> enc_details(ns, node, indent)
        [] name = "html" -> Enc(ns, enc_html(ns, ns[node].children, indent))
        [] name = "empty" ->
             serializeAll(ns, ns[node].children,
                          IF ns[node].type = "inline" THEN 0 ELSE indent, <<>>)
        [] ns[node].children = <<>> ->
             TagFirst(ns, spaces(indent) \o tag, attr_str(ns[node].attr), <<">\n">>,
                      Enc(ns, <<>>), <<>>)
        [] ns[node].type = "inline" ->
             TagFirst(ns, tag, attr_str(ns[node].attr), <<">">>,
                      serializeAll(ns, ns[node].children, 0, <<>>),
                      <<"</" \o name \o ">">>)
        [] ns[node].type = "block" ->
             TagFirst(ns, spaces(indent) \o tag, attr_str(ns[node].attr), <<">\n">>,
                      serializeAll(ns, ns[node].children, indent + 2, <<>>),
                      spaces(indent) \o <<"</" \o name \o ">\n">>)
        [] OTHER -> EncThrow(ns, "can't be here")

\* encode(node, option): serialize(node, option.indent), the indent 0
\* when the option has none
encode(ns, node, indent) == serialize(ns, node, indent)

---------------------------------------------------------------------------
(* The lines the documents are made of.                                    *)

H1 == <<"#", " ", "A">>
H2 == <<"#", "#", " ", "B">>
H3 == <<"#", "#", "#", " ", "C">>
Ul0 == <<"-", " ", "a">>
Ul1 == <<" ", " ", "-", " ", "b">>
Ul2 == <<" ", " ", " ", " ", "-", " ", "c">>
Ol0 == <<"1", ".", " ", "a">>
Quote == <<">", " ", "q">>
QuoteCite == <<">", " ", "-", "-", "-", " ", "x", " ", "[", "s", "]", "(", "u", ")">>
CaptionT == <<"C", "a", "p", "t", "i", "o", "n", ":", " ", "T">>
RowAB == <<"|", "a", "|", "b", "|">>
RowSep == <<"|", ":", "-", "|", "-", ":", "|">>
Row1 == <<"|", "1", "|">>
Empty == <<>>
Space == <<" ">>
Para == <<"t">>
Dd == <<":", " ", "d">>
DdEm == <<":", " ", "*", "x">>
DetailsS == <<":", ":", ":", "d", "e", "t", "a", "i", "l", "s", " ", "s">>
DetailsEnd == <<":", ":", ":">>
Fence == <<BT, BT, BT>>
FenceJs == <<BT, BT, BT, "j", "s">>
HtmlDiv == <<"<", "d", "i", "v", ">">>

Lines == {H1, H2, H3, Ul0, Ul1, Ul2, Ol0, Quote, QuoteCite, CaptionT, RowAB, RowSep, Row1,
          Empty, Space, Para, Dd, DetailsS, DetailsEnd, Fence, FenceJs, HtmlDiv}

\* the longest document, in lines
MaxLines == 3

\* the most encode calls on one AST
MaxEncodes == 2

---------------------------------------------------------------------------
(* decode: parse reads one line in each step.                              *)

Root == 1

Init ==
  /\ nodes = <<[Node("root", "block") EXCEPT !.level = 0]>>
  /\ cursor = Root
  /\ doc = <<>>
  /\ outcome = "parsing"
  /\ error = NoError
  /\ output = <<>>
  /\ encodes = 0
  /\ toc = NoToc

\* parse has lines left, the first is head and recognizer kind takes it
Reads(head, kind, max) ==
  /\ outcome = "parsing"
  /\ Len(doc) < max
  /\ Recognizer(head, IF cursor = Null THEN NullAst ELSE nodes[cursor]) = kind

\* the handler's result r becomes the state
Becomes(head, r) ==
  /\ doc' = Append(doc, head)
  /\ nodes' = r.ns
  /\ cursor' = r.cursor
  /\ outcome' = r.out
  /\ error' = r.err
  /\ UNCHANGED <<output, encodes, toc>>

FenceLine(head, max) == Reads(head, "pre", max) /\ Becomes(head, pre(nodes, head, cursor))

\* parse(rest, null) reads a line that is not a fence line
NullAstLine(head, max) == Reads(head, "nullast", max) /\ Becomes(head, TypeError(nodes, cursor))

PreLine(head, max) == Reads(head, "pretext", max) /\ Becomes(head, pretext(nodes, head, cursor))

DetailsLine(head, max) ==
  Reads(head, "details", max) /\ Becomes(head, details(nodes, head, cursor))

HtmlLine(head, max) == Reads(head, "html", max) /\ Becomes(head, html(nodes, head, cursor))

BlankLine(head, max) == Reads(head, "blank", max) /\ Becomes(head, blank(nodes, cursor))

HeadingLine(head, max) ==
  Reads(head, "heading", max) /\ Becomes(head, heading(nodes, head, cursor))

OlLine(head, max) ==
  Reads(head, "ol", max) /\ Becomes(head, list(nodes, "ol", OlRe(head), head, cursor))

UlLine(head, max) ==
  Reads(head, "ul", max) /\ Becomes(head, list(nodes, "ul", UlRe(head), head, cursor))

DlLine(head, max) == Reads(head, "dl", max) /\ Becomes(head, dl(nodes, head, cursor))

BlockquoteLine(head, max) ==
  Reads(head, "blockquote", max) /\ Becomes(head, blockquote(nodes, head, cursor))

CaptionLine(head, max) ==
  Reads(head, "table_caption", max) /\ Becomes(head, table_caption(nodes, head, cursor))

TableLine(head, max) == Reads(head, "table", max) /\ Becomes(head, table(nodes, head, cursor))

SpaceLine(head, max) ==
  Reads(head, "spaceonly", max) /\ Becomes(head, Thrown(nodes, "space only line in", head, cursor))

PLine(head, max) == Reads(head, "p", max) /\ Becomes(head, p(nodes, head, cursor))

\* lines.length === 0: parse returns rise(ast, `root`); md.split gives
\* one line at least
ParseEnd ==
  /\ outcome = "parsing"
  /\ Len(doc) >= 1
  /\ outcome' = IF rise(nodes, cursor, "root") = Null THEN "typeerror" ELSE "returned"
  /\ cursor' = rise(nodes, cursor, "root")
  /\ UNCHANGED <<nodes, doc, error, output, encodes, toc>>

\* what encode returned becomes the state
\* or, when it threw, what it threw
Encoded(r) ==
  /\ nodes' = r.ns
  /\ output' = IF r.out = "ok" THEN r.s ELSE output
  /\ error' = IF r.out = "ok" THEN error ELSE r.err
  /\ encodes' = encodes + 1
  /\ UNCHANGED <<cursor, doc, outcome, toc>>

\* encode(ast) on the AST decode returned, max times at most
Encode(max) ==
  /\ outcome = "returned"
  /\ encodes < max
  /\ Encoded(encode(nodes, cursor, 0))

Next ==
  \/ \E head \in Lines :
       \/ FenceLine(head, MaxLines)
       \/ NullAstLine(head, MaxLines)
       \/ PreLine(head, MaxLines)
       \/ DetailsLine(head, MaxLines)
       \/ HtmlLine(head, MaxLines)
       \/ BlankLine(head, MaxLines)
       \/ HeadingLine(head, MaxLines)
       \/ OlLine(head, MaxLines)
       \/ UlLine(head, MaxLines)
       \/ DlLine(head, MaxLines)
       \/ BlockquoteLine(head, MaxLines)
       \/ CaptionLine(head, MaxLines)
       \/ TableLine(head, MaxLines)
       \/ SpaceLine(head, MaxLines)
       \/ PLine(head, MaxLines)
  \/ ParseEnd
  \/ Encode(MaxEncodes)

Spec == Init /\ [][Next]_vars

---------------------------------------------------------------------------
(* traverse and to_toc, the two other functions that change a tree decode  *)
(* returned.  The plugin of traverse is the caller's: four plugins stand    *)
(* for it, one that returns every node as it is, one whose enter returns a  *)
(* new hr for a p, one whose enter sets the id of a heading, and one whose  *)
(* leave empties the children of a p.                                       *)

Plugins == {"identity", "p_to_hr", "heading_id", "p_emptied"}

\* plugin.enter(child): the arena after the call and the node it returned
enter(plugin, ns, child) ==
  IF plugin = "p_to_hr" /\ ns[child].name = "p"
  THEN [ns |-> Alloc(ns, Node("hr", "block")), n |-> Len(ns) + 1]
  ELSE IF plugin = "heading_id" /\ ns[child].name = "heading"
  THEN [ns |-> [ns EXCEPT ![child].attr = set(@, Key("id"), <<"a">>)], n |-> child]
  ELSE [ns |-> ns, n |-> child]

\* plugin.leave(child)
leave(plugin, ns, child) ==
  IF plugin = "p_emptied" /\ ns[child].name = "p"
  THEN [ns |-> [ns EXCEPT ![child].children = <<>>], n |-> child]
  ELSE [ns |-> ns, n |-> child]

RECURSIVE traverse(_, _, _)
RECURSIVE traverseChildren(_, _, _, _)

\* the child that enter returned is traversed, then given to leave
traverseChild(e, plugin) == leave(plugin, traverse(e.ns, e.n, plugin), e.n)

traverseRest(l, rest, plugin, acc) == traverseChildren(l.ns, rest, plugin, Append(acc, l.n))

\* ast.children.map(...): acc holds the nodes returned so far
traverseChildren(ns, children, plugin, acc) ==
  IF children = <<>> THEN [ns |-> ns, children |-> acc]
  ELSE traverseRest(traverseChild(enter(plugin, ns, Head(children)), plugin),
                    Tail(children), plugin, acc)

\* the new children are assigned to ast.children; no parent is set
traverseAssign(r, ast) == [r.ns EXCEPT ![ast].children = r.children]

traverse(ns, ast, plugin) ==
  traverseAssign(traverseChildren(ns, ns[ast].children, plugin, <<>>), ast)

\* the heading nodes under n in document order, what to_toc is called with
RECURSIVE HeadingsOf(_, _)
RECURSIVE HeadingsOfAll(_, _)
HeadingsOfAll(ns, children) ==
  IF children = <<>> THEN <<>>
  ELSE HeadingsOf(ns, Head(children)) \o HeadingsOfAll(ns, Tail(children))

HeadingsOf(ns, n) ==
  IF ns[n].name = "heading" THEN <<n>> ELSE HeadingsOfAll(ns, ns[n].children)

\* the function list of to_toc: a new li takes the children of the heading
\* (their parent becomes the li, the heading keeps them in its children);
\* it returns root, or nothing for a heading two levels or more below the
\* current list; with a level that is undefined the sum and the comparison
\* are false
RECURSIVE tocList(_, _, _, _, _)
tocPlace(ns, li, headings, current, root, name) ==
  LET head == Head(headings)
      ul == Len(ns) + 1
  IN  IF ns[current].level = ns[head].level
      THEN tocList(appendChild(ns, current, li), Tail(headings), current, root, name)
      ELSE IF ns[current].level # NoLevel /\ ns[current].level + 1 = ns[head].level
      THEN tocList(appendChild(appendChild(Alloc(ns, [Node(name, "block") EXCEPT
                                                        !.level = ns[head].level]),
                                           current, ul), ul, li),
                   Tail(headings), ul, root, name)
      ELSE IF ns[current].level # NoLevel /\ ns[head].level # NoLevel
              /\ ns[current].level > ns[head].level
      THEN IF ns[current].parent = Null
           THEN \* list(headings, null) makes its li, then reads null.level
                [out |-> "typeerror",
                 ns |-> appendChildren(Alloc(ns, Node("li", "inline")), Len(ns) + 1,
                                       ns[head].children),
                 root |-> Null]
           ELSE tocList(ns, headings, ns[current].parent, root, name)
      ELSE [out |-> "undefined", ns |-> ns, root |-> Null]

tocList(ns, headings, current, root, name) ==
  IF headings = <<>> THEN [out |-> "returned", ns |-> ns, root |-> root]
  ELSE tocPlace(appendChildren(Alloc(ns, Node("li", "inline")), Len(ns) + 1,
                               ns[Head(headings)].children),
                Len(ns) + 1, headings, current, root, name)

\* to_toc(headings, {list: name})
to_toc(ns, headings, name) ==
  tocList(Alloc(ns, [Node(name, "block") EXCEPT !.level = 1]), headings,
          Len(ns) + 1, Len(ns) + 1, name)

\* traverse(ast, plugin) on the AST decode returned
Traverse(plugin) ==
  /\ outcome = "returned"
  /\ nodes' = traverse(nodes, cursor, plugin)
  /\ UNCHANGED <<cursor, doc, outcome, error, output, encodes, toc>>

\* what to_toc returned becomes the state
TocMade(r) ==
  /\ nodes' = r.ns
  /\ toc' = [out |-> r.out, root |-> r.root]
  /\ UNCHANGED <<cursor, doc, outcome, error, output, encodes>>

\* to_toc on the headings of the AST decode returned, once
ToToc(name) ==
  /\ outcome = "returned"
  /\ toc = NoToc
  /\ TocMade(to_toc(nodes, HeadingsOf(nodes, cursor), name))

\* a heading line of a CRLF file: the CR keeps it from the heading rule
H1CR == <<"#", " ", "A", "\r">>

PluginLines == {H1, H2, H3, H1CR, Para, Ul0, Quote}

NextPlugins ==
  \/ \E head \in PluginLines :
       \/ HeadingLine(head, MaxLines)
       \/ UlLine(head, MaxLines)
       \/ BlockquoteLine(head, MaxLines)
       \/ PLine(head, MaxLines)
  \/ ParseEnd
  \/ \E plugin \in Plugins : Traverse(plugin)
  \/ \E name \in {"ol", "ul"} : ToToc(name)
  \/ Encode(MaxEncodes)

SpecPlugins == Init /\ [][NextPlugins]_vars

---------------------------------------------------------------------------
(* What the properties below are stated with.                              *)

\* the nodes reached from n through children, n included
RECURSIVE Reached(_, _)
Reached(ns, n) ==
  {n} \cup UNION {Reached(ns, ns[n].children[j]) : j \in 1..Len(ns[n].children)}

\* the level of the nearest section that carries a level, from n upwards;
\* root counts as level 0
RECURSIVE EnclosingLevel(_, _)
EnclosingLevel(ns, n) ==
  IF n = Null \/ ns[n].name = "root" THEN 0
  ELSE IF ns[n].name = "section" /\ ns[n].level # NoLevel THEN ns[n].level
  ELSE EnclosingLevel(ns, ns[n].parent)

\* the last element of a sequence, Null when it has none
LastOf(s) == IF s = <<>> THEN Null ELSE s[Len(s)]

\* parse reads the line head in this step
ReadsLine(head) == outcome = "parsing" /\ doc' = Append(doc, head)

---------------------------------------------------------------------------
(* C1..C4: sectioning, the parent tree, the outcomes of decode.            *)

\* C1 as the spec states it: whenever a heading line of level L is read
\* while the nearest enclosing section has a level smaller than L - 1, decode
\* throws 'invalid sectioning', whatever node the cursor is.
C1_Original ==
  [][\A head \in Lines :
       (/\ ReadsLine(head)
        /\ Recognizer(head, nodes[cursor]) = "heading"
        /\ EnclosingLevel(nodes, cursor) < HeadingRe(head).symbol - 1)
       => (outcome' = "throw" /\ error'.msg = "invalid sectioning")]_vars

\* a level-2 heading read at a blockquote directly under root has been
\* accepted
C1_Witness ==
  /\ doc = <<Quote, H2>>
  /\ outcome = "parsing"
  /\ nodes[cursor].name = "section"

\* C2 as the spec states it: in a returned AST every section that carries a
\* level has the level of the nearest levelled section above it plus 1 (1
\* under root): the levels on a path are 1, 2, 3, ...
C2_Original ==
  outcome = "returned" =>
    \A n \in Reached(nodes, Root) :
      (nodes[n].name = "section" /\ nodes[n].level # NoLevel)
        => nodes[n].level = EnclosingLevel(nodes, nodes[n].parent) + 1

\* a returned AST with a level-1 section inside a list inside a level-1
\* section
C2_Witness ==
  /\ doc = <<H1, Ul0, H1>>
  /\ outcome = "returned"
  /\ \E n \in Reached(nodes, Root) :
       /\ nodes[n].name = "section"
       /\ nodes[n].level = 1
       /\ EnclosingLevel(nodes, nodes[n].parent) = 1

\* C3 as the spec states it: in a returned AST every child's parent is the
\* node that lists it, root is the only reached node without a parent, and
\* no node is listed twice.
C3_Original ==
  outcome = "returned" =>
    /\ \A n \in Reached(nodes, Root) : \A j \in 1..Len(nodes[n].children) :
         nodes[nodes[n].children[j]].parent = n
    /\ \A n \in Reached(nodes, Root) : nodes[n].parent = Null => n = Root
    /\ \A n, m \in Reached(nodes, Root) :
         \A j \in 1..Len(nodes[n].children), k \in 1..Len(nodes[m].children) :
           nodes[n].children[j] = nodes[m].children[k] => (n = m /\ j = k)

\* a returned AST whose root lists a p that has no parent
C3_Witness ==
  /\ doc = <<Para>>
  /\ outcome = "returned"
  /\ \E j \in 1..Len(nodes[Root].children) :
       /\ nodes[nodes[Root].children[j]].name = "p"
       /\ nodes[nodes[Root].children[j]].parent = Null

\* C4 as the spec states it: decode returns the root or throws an Error of
\* the parser with a message; it never returns undefined and never fails on
\* a missing cursor or node.
C4_Original ==
  /\ outcome \in {"parsing", "returned", "throw"}
  /\ outcome = "throw" => error.msg # ""

\* decode has returned undefined for a list item two levels below the
\* cursor list
C4_Witness == doc = <<Ul0, Ul2>> /\ outcome = "undefined"

---------------------------------------------------------------------------
(* C5..C7: the HTML of a nested list, the rows of a table.                 *)

\* C5: encode(decode('- a\n  - b')) is exactly the block form of mix_inline:
\* the li that holds a nested list opens on a row of its own, its text and
\* the nested list follow at indent + 2, and </li> closes it; the inner li,
\* which holds text only, is one row without a closing tag.
C5_NestedListHtml ==
  (doc = <<Ul0, Ul1>> /\ outcome = "returned" /\ encodes >= 1)
    => Str(output) = "<ul>\n  <li>\n    a\n    <ul>\n      <li>b\n    </ul>\n  </li>\n</ul>\n"

\* encode has returned for the AST of '- a\n  - b'
C5_Witness == doc = <<Ul0, Ul1>> /\ outcome = "returned" /\ encodes = 1

\* C5 as the spec states it: the outer li carries its text on the row of
\* <li> and has no closing tag
C5_Original ==
  (doc = <<Ul0, Ul1>> /\ outcome = "returned" /\ encodes >= 1)
    => Str(output) = "<ul>\n  <li>a\n    <ul>\n      <li>b\n    </ul>\n</ul>\n"

\* the rows (tr) of the table t: those of its thead and of its tbodies
Rows(ns, t) ==
  UNION {{ns[part].children[k] : k \in 1..Len(ns[part].children)} :
           part \in {ns[t].children[j] : j \in 1..Len(ns[t].children)}}

\* C6 as the spec states it: in a returned AST every row of a table has as
\* many cells as the header row of its thead, and the aligns of every tbody
\* has that length.
C6_Original ==
  outcome = "returned" =>
    \A t \in Reached(nodes, Root) :
      (nodes[t].name = "table" /\ nodes[nodes[t].children[1]].children # <<>>)
        => LET width == Len(nodes[nodes[nodes[t].children[1]].children[1]].children)
           IN  /\ \A r \in Rows(nodes, t) : Len(nodes[r].children) = width
               /\ \A j \in 1..Len(nodes[t].children) :
                    nodes[nodes[t].children[j]].name = "tbody"
                      => Len(nodes[nodes[t].children[j]].aligns) = width

\* a returned table whose thead has a row of two cells and a row of one
C6_Witness ==
  /\ doc = <<CaptionT, RowAB, Row1>>
  /\ outcome = "returned"
  /\ \E t \in Reached(nodes, Root) :
       /\ nodes[t].name = "table"
       /\ \E r, q \in Rows(nodes, t) : Len(nodes[r].children) # Len(nodes[q].children)

\* C7: a table-row line that the table rule reads (the cursor is no pre,
\* where every line is code) while the cursor is neither a thead nor a tbody
\* makes decode throw 'Table caption required' with the line in the message,
\* and the line adds no node and changes none.
C7_CaptionRequired ==
  [][\A head \in Lines :
       (/\ ReadsLine(head)
        /\ TableRe(head).m
        /\ cursor # Null
        /\ nodes[cursor].name \notin {"thead", "tbody", "pre"})
       => (/\ outcome' = "throw"
           /\ error' = [msg |-> "Table caption required before", input |-> head]
           /\ nodes' = nodes)]_vars

\* a row read in a section after a heading has made decode throw
C7_Witness ==
  /\ doc = <<H1, RowAB>>
  /\ outcome = "throw"
  /\ error = [msg |-> "Table caption required before", input |-> RowAB]

\* C7 as the spec states it: every cursor that is neither a thead nor a
\* tbody, a pre included
C7_Original ==
  [][\A head \in Lines :
       (/\ ReadsLine(head)
        /\ TableRe(head).m
        /\ cursor # Null
        /\ nodes[cursor].name \notin {"thead", "tbody"})
       => (/\ outcome' = "throw"
           /\ error' = [msg |-> "Table caption required before", input |-> head]
           /\ nodes' = nodes)]_vars

---------------------------------------------------------------------------
(* C8: definition lines, on documents of paragraphs, definition lines,     *)
(* quotes and fences.                                                      *)

DdWide == <<":", " ", " ", "d">>
DdLoop == <<":", " ", "[", "[">>

DlLines == {Para, Dd, DdEm, DdWide, DdLoop, Quote, Fence}

\* the longest document of SpecDl, in lines
MaxDlLines == 4

NextDl ==
  \/ \E head \in DlLines :
       \/ FenceLine(head, MaxDlLines)
       \/ PreLine(head, MaxDlLines)
       \/ DlLine(head, MaxDlLines)
       \/ BlockquoteLine(head, MaxDlLines)
       \/ PLine(head, MaxDlLines)
  \/ ParseEnd

SpecDl == Init /\ [][NextDl]_vars

\* the reached nodes of a name
Named(ns, name) == {n \in Reached(ns, Root) : ns[n].name = name}

\* the step took the p prev off the cursor and put a new div of a dt with
\* the children of prev and a new dd at the end of a dl at the end of the
\* cursor: the dl that stood before prev, or else a new one
DtDdPlaced(prev) ==
  LET kids == nodes[cursor].children
      before == IF Len(kids) >= 2 THEN kids[Len(kids) - 1] ELSE Null
      dl_ == LastOf(nodes'[cursor].children)
      div == LastOf(nodes'[dl_].children)
  IN  /\ dl_ # Null /\ nodes'[dl_].name = "dl"
      /\ div > Len(nodes) /\ nodes'[div].name = "div"
      /\ Len(nodes'[div].children) = 2
      /\ nodes'[nodes'[div].children[1]].name = "dt"
      /\ nodes'[nodes'[div].children[1]].children = nodes[prev].children
      /\ nodes'[nodes'[div].children[2]].name = "dd"
      /\ nodes'[div].children[2] > Len(nodes)
      /\ IF before # Null /\ nodes[before].name = "dl"
         THEN /\ dl_ = before
              /\ nodes'[cursor].children = SubSeq(kids, 1, Len(kids) - 1)
              /\ nodes'[dl_].children = Append(nodes[dl_].children, div)
         ELSE /\ dl_ > Len(nodes)
              /\ nodes'[cursor].children = Append(SubSeq(kids, 1, Len(kids) - 1), dl_)
              /\ nodes'[dl_].children = <<div>>

\* the step put a new dd at the end of the last div of the dl prev
DdAppended(prev) ==
  LET div == LastOf(nodes[prev].children)
      dd == LastOf(nodes'[div].children)
  IN  /\ nodes'[cursor].children = nodes[cursor].children
      /\ nodes'[prev].children = nodes[prev].children
      /\ nodes'[div].children = Append(nodes[div].children, dd)
      /\ dd > Len(nodes) /\ nodes'[dd].name = "dd"

\* the step added one dd as C8 says, the cursor unchanged
OneDdAdded(prev) ==
  /\ outcome' = "parsing"
  /\ cursor' = cursor
  /\ Cardinality(Named(nodes', "dd")) = Cardinality(Named(nodes, "dd")) + 1
  /\ IF nodes[prev].name = "p" THEN DtDdPlaced(prev) ELSE DdAppended(prev)

\* a term has been read and the definition line ': [[' after it: the p
\* of the term is off the cursor, no dd is in the tree, nothing is
\* thrown, and decode does not go on
C8_Witness ==
  /\ doc = <<Para, DdLoop>>
  /\ outcome = "loop"
  /\ error = NoError
  /\ Named(nodes, "dd") = {}
  /\ Named(nodes, "p") = {}

\* C8 as the spec states it: for every line ': text' (one space, no space
\* at the end), 'invalid <dd>' is thrown exactly when the last child of the
\* cursor is neither a p nor a dl, and otherwise nothing is thrown and the
\* dd is added
C8_Original ==
  [][\A head \in DlLines :
       (/\ ReadsLine(head)
        /\ DlRe(head).m
        /\ DlRe(head).spaces = 1
        /\ ~endsWith(DlRe(head).text, <<" ">>))
       => LET prev == LastOf(nodes[cursor].children)
              neither == prev = Null \/ nodes[prev].name \notin {"p", "dl"}
          IN  /\ (outcome' = "throw" /\ error'.msg = "invalid <dd>") <=> neither
              /\ ~neither => OneDdAdded(prev)]_vars

---------------------------------------------------------------------------
(* C9, C10: the citation of a blockquote, encode and the AST.              *)

\* the last line read is a citation line of the blockquote the cursor is
CitationRead ==
  /\ outcome = "parsing"
  /\ doc # <<>>
  /\ BlockquoteRe(LastOf(doc)).m
  /\ startsWith(BlockquoteRe(LastOf(doc)).text, <<"-", "-", "-", " ">>)
  /\ nodes[cursor].name = "blockquote"

\* the a nodes among the children of n, by their place
LinksOf(ns, n) == {j \in 1..Len(ns[n].children) : ns[ns[n].children[j]].name = "a"}

\* C9 as the spec states it: after a citation line the paragraph added to
\* the blockquote is the text '--- ' and one cite node, and the cite
\* attribute of the blockquote is the href of the first a node among the
\* nodes the cite wraps, text before the link or not.
C9_Original ==
  CitationRead =>
    LET para == LastOf(nodes[cursor].children)
        cite == LastOf(nodes[para].children)
        first == CHOOSE j \in LinksOf(nodes, cite) : \A k \in LinksOf(nodes, cite) : j <= k
    IN  /\ Len(nodes[para].children) = 2
        /\ nodes[nodes[para].children[1]].text = <<"-", "-", "-", " ">>
        /\ nodes[cite].name = "cite"
        /\ LinksOf(nodes, cite) # {}
             => get(nodes[cursor].attr, Key("cite"))
                  = get(nodes[nodes[cite].children[first]].attr, Key("href"))

\* a citation with text before its link has been read, and the blockquote
\* has no url for its cite
C9_Witness ==
  /\ doc = <<QuoteCite>>
  /\ CitationRead
  /\ get(nodes[cursor].attr, Key("cite")) = Undefined

\* C10 as the spec states it: an encode call leaves the name, type, level,
\* text, children and attr of every node as they were.
C10_Original ==
  [][(outcome = "returned" /\ encodes' = encodes + 1)
       => \A n \in 1..Len(nodes) :
            /\ nodes'[n].name = nodes[n].name
            /\ nodes'[n].type = nodes[n].type
            /\ nodes'[n].level = nodes[n].level
            /\ nodes'[n].text = nodes[n].text
            /\ nodes'[n].children = nodes[n].children
            /\ nodes'[n].attr = nodes[n].attr]_vars

\* encode has returned and the pre of the AST has lost its lang for a
\* class and a data-code
C10_Witness ==
  /\ doc = <<FenceJs>>
  /\ encodes = 1
  /\ \E n \in Reached(nodes, Root) :
       /\ nodes[n].name = "pre"
       /\ ~has(nodes[n].attr, Key("lang"))
       /\ has(nodes[n].attr, Key("data-code"))

---------------------------------------------------------------------------
(* C11 and C20: fenced code, on documents of fences and of lines that look *)
(* like other blocks.                                                      *)

EscStar == <<"\\", "*">>
FenceSpJs == <<BT, BT, BT, " ", "j", "s">>

PreLines ==
  {Fence, FenceJs, FenceSpJs, EscStar, H1, Ul0, Ul1, Row1, DetailsEnd, Empty, Space, Para}

\* the longest document of SpecPre, in lines
MaxPreLines == 4

NextPre ==
  \/ \E head \in PreLines :
       \/ FenceLine(head, MaxPreLines)
       \/ NullAstLine(head, MaxPreLines)
       \/ PreLine(head, MaxPreLines)
       \/ DetailsLine(head, MaxPreLines)
       \/ BlankLine(head, MaxPreLines)
       \/ HeadingLine(head, MaxPreLines)
       \/ UlLine(head, MaxPreLines)
       \/ TableLine(head, MaxPreLines)
       \/ SpaceLine(head, MaxPreLines)
       \/ PLine(head, MaxPreLines)
  \/ ParseEnd

SpecPre == Init /\ [][NextPre]_vars

\* the texts of the children of n, in order
TextsOf(ns, n) == [j \in 1..Len(ns[n].children) |-> ns[ns[n].children[j]].text]

\* C11 as the spec states it: a line that is not a fence, read while the
\* cursor is a pre, becomes one more text child of that pre whose text is
\* the line character for character; the texts before it stay, the cursor
\* stays and decode goes on.
C11_Original ==
  [][\A head \in PreLines :
       (ReadsLine(head) /\ cursor # Null /\ nodes[cursor].name = "pre" /\ ~FenceRe(head).m)
         => /\ cursor' = cursor
            /\ outcome' = "parsing"
            /\ TextsOf(nodes', cursor) = Append(TextsOf(nodes, cursor), head)
            /\ \A j \in 1..Len(nodes'[cursor].children) :
                 nodes'[nodes'[cursor].children[j]].name = "text"]_vars

\* the line \* has been read inside a pre and its text child holds * alone
C11_Witness ==
  /\ doc = <<Fence, EscStar>>
  /\ nodes[cursor].name = "pre"
  /\ TextsOf(nodes, cursor) = <<<<"*">>>>

---------------------------------------------------------------------------
(* C12, C13 and C16: the inline parser, on documents of one paragraph line *)
(* made of the characters the productions look at.                         *)

Chars == {"[", "]", "(", "*", BT, "\\", "a", " "}

\* the longest line of SpecInline, in characters
MaxLineLen == 4

\* the lines parse hands to p when they are read at root
InlineTexts ==
  {s \in UNION {[1..n -> Chars] : n \in 0..MaxLineLen} :
     Recognizer(s, [name |-> "root"]) = "p"}

\* decode(head) for a one-line document
InlineLine == doc = <<>> /\ \E head \in InlineTexts : PLine(head, MaxLines)

NextInline == InlineLine \/ ParseEnd

SpecInline == Init /\ [][NextInline]_vars

\* the positions (0-based) of the characters of s from i on that no
\* backslash before them escapes and that are not a backslash themselves
RECURSIVE Unescaped(_, _)
Unescaped(s, i) ==
  IF i >= Len(s) THEN {}
  ELSE IF At(s, i) = "\\" THEN Unescaped(s, i + 2)
  ELSE {i} \cup Unescaped(s, i + 1)

\* the unescaped positions of s that hold the character c
Plain(s, c) == {i \in Unescaped(s, 0) : At(s, i) = c}

\* the texts of the text nodes under n, from left to right, as one string
RECURSIVE TextUnder(_, _)
TextUnder(ns, n) ==
  IF ns[n].name = "text" THEN ns[n].text
  ELSE LET RECURSIVE cat(_)
           cat(k) == IF k > Len(ns[n].children) THEN <<>>
                     ELSE TextUnder(ns, ns[n].children[k]) \o cat(k + 1)
       IN  cat(1)

\* a paragraph line with a [ and nowhere a ]( has been read
BracketNoLink ==
  /\ Len(doc) = 1
  /\ Plain(doc[1], "[") # {}
  /\ \A i \in Plain(doc[1], "]") : At(doc[1], i + 1) # "("

\* C12 as the spec states it: a paragraph line with a [ that no ]( follows
\* is read without an a node, and when it holds no other delimiter the
\* texts of the paragraph are the line as written.
C12_Original ==
  (BracketNoLink /\ outcome \in {"parsing", "returned"})
    => /\ \A n \in Reached(nodes, Root) : nodes[n].name # "a"
       /\ (Plain(doc[1], "*") \cup Plain(doc[1], BT) = {} /\ Unescaped(doc[1], 0) = 0..(Len(doc[1]) - 1))
            => TextUnder(nodes, Root) = doc[1]

\* the line [a has been read and its paragraph holds an a node with an
\* empty href
C12_Witness ==
  /\ doc = <<<<"[", "a">>>>
  /\ outcome = "parsing"
  /\ \E n \in Reached(nodes, Root) :
       nodes[n].name = "a" /\ get(nodes[n].attr, Key("href")) = <<>>

\* the line read has an unescaped delimiter that nothing later in the line
\* closes: one backtick alone, or no backtick and one * alone
OpenDelimiter ==
  /\ Len(doc) = 1
  /\ \/ Cardinality(Plain(doc[1], BT)) = 1
     \/ Plain(doc[1], BT) = {} /\ Cardinality(Plain(doc[1], "*")) = 1

UnmatchedErrors ==
  {"unmatched </em>", "unmatched </strong>", "unmatched </code>", "too many spaces in",
   "too many spaces before", "too many spaces after", "too many spaces around"}

\* C13 as the spec states it: a paragraph line with an open delimiter makes
\* decode throw an unmatched or a whitespace error, and no em, strong or
\* code node is in the tree.
C13_Original ==
  OpenDelimiter
    => /\ outcome = "throw"
       /\ error.msg \in UnmatchedErrors
       /\ \A n \in Reached(nodes, Root) : nodes[n].name \notin {"em", "strong", "code"}

\* the line [[`] has been read: decode goes on, and the backtick is text of
\* a link
C13_Witness ==
  /\ doc = <<<<"[", "[", BT, "]">>>>
  /\ outcome = "parsing"
  /\ \E n \in Reached(nodes, Root) : nodes[n].name = "a"
  /\ TextUnder(nodes, Root) = <<"[", BT, "]">>

---------------------------------------------------------------------------
(* C14: attr_str, on encode of one childless node that carries a map of    *)
(* attributes.                                                             *)

\* the keys: one that starts with an underscore, one that holds one later,
\* align, the five keys of quote, and class
AttrKeys ==
  {<<"_", "x">>, <<"a", "_">>, Key("align"), Key("title"), Key("alt"), Key("cite"),
   Key("href"), Key("id"), Key("class")}

\* the values: null and strings (Map.<string, string | null>), among them
\* each character of the regular expression, and the undefined that
\* decode stores under align and cite
AttrValues ==
  {NullValue, Undefined, <<>>, <<"a">>, <<"a", " ", "b">>, <<"a", "=">>, <<"\"">>, <<"'">>,
   <<BT>>, <<"<">>, <<">">>}

\* the values of the entries after the first
LaterValues == {NullValue, Undefined, <<"a">>, <<"a", " ", "b">>}

\* the most entries of a map
MaxAttrs == 2

\* the maps: entries in insertion order, no key twice; the first entry has
\* any value, the later ones a value of LaterValues
AttrMaps ==
  {<<>>} \cup
  {a \in {<<e>> \o t : e \in [k : AttrKeys, v : AttrValues],
                       t \in UNION {[1..n -> [k : AttrKeys, v : LaterValues]] :
                                      n \in 0..(MaxAttrs - 1)}} :
     \A i, j \in 1..Len(a) : i # j => a[i].k # a[j].k}

\* node({name: `img`, type: `inline`, attr}) for a map of AttrMaps, handed
\* to encode
InitAttr ==
  /\ \E a \in AttrMaps : nodes = <<[Node("img", "inline") EXCEPT !.attr = a]>>
  /\ cursor = Root
  /\ doc = <<>>
  /\ outcome = "returned"
  /\ error = NoError
  /\ output = <<>>
  /\ encodes = 0
  /\ toc = NoToc

NextAttr == Encode(MaxEncodes)

SpecAttr == InitAttr /\ [][NextAttr]_vars

\* key="value"
Quoted(e) == <<" ">> \o e.k \o <<"=\"">> \o e.v \o <<"\"">>

\* the key starts with an underscore
Underscored(e) == e.k # <<>> /\ e.k[1] = "_"

\* one of the keys that are always quoted
AlwaysQuoted(e) == e.k \in {Key("title"), Key("alt"), Key("cite"), Key("href"), Key("id")}

\* what the rules give for one entry, the first rule that applies; the
\* word undefined stands for a value that is undefined
Contribution(e) ==
  CASE Underscored(e) -> <<>>
    [] ~Underscored(e) /\ e.v = NullValue -> <<" ">> \o e.k
    [] ~Underscored(e) /\ e.v # NullValue /\ e.k = Key("align") ->
         <<" class=align-">> \o e.v
    [] ~Underscored(e) /\ e.v # NullValue /\ AlwaysQuoted(e) -> Quoted(e)
    [] OTHER ->
         IF \E j \in 1..Len(e.v) : e.v[j] \in {" ", "\"", "'", BT, "=", "<", ">"}
         THEN Quoted(e)
         ELSE <<" ">> \o e.k \o <<"=">> \o e.v

RECURSIVE Contributions(_)
Contributions(a) == IF a = <<>> THEN <<>> ELSE Contribution(Head(a)) \o Contributions(Tail(a))

\* a value that is no string and no null comes under the last rule, the
\* one that looks into the value
NoString(a) ==
  \E i \in 1..Len(a) :
    /\ a[i].v = Undefined
    /\ ~Underscored(a[i])
    /\ a[i].k # Key("align")
    /\ ~AlwaysQuoted(a[i])

\* C14: the tag encode writes for a childless node lists the attributes in
\* insertion order, each as the first of these rules gives it: a key that
\* starts with _ gives nothing; a null value gives ' key'; align gives
\* ' class=align-<value>'; title, alt, cite, href and id are double-quoted;
\* any other value is double-quoted exactly when it holds a space or one
\* of " ' ` = < >.  This holds for every map whose values are strings or
\* null, and for an undefined value where one of the first four rules
\* takes it; an undefined value that reaches the last rule makes encode
\* throw a TypeError and write nothing.
C14_AttrStr ==
  (nodes[Root].name = "img" /\ encodes >= 1)
    => /\ ~NoString(nodes[Root].attr)
            => /\ error = NoError
               /\ Str(output) = "<img" \o Str(Contributions(nodes[Root].attr)) \o ">\n"
       /\ NoString(nodes[Root].attr) => error.msg = "TypeError" /\ output = <<>>

\* encode has written a tag for a map whose first entry has a key with an
\* underscore and whose second is an align
C14_Witness ==
  /\ nodes[Root].name = "img"
  /\ encodes = 1
  /\ Len(nodes[Root].attr) = 2
  /\ nodes[Root].attr[1] = [k |-> <<"_", "x">>, v |-> <<"<">>]
  /\ nodes[Root].attr[2] = [k |-> Key("align"), v |-> <<"a", " ", "b">>]
  /\ Str(output) = "<img class=align-a b>\n"

---------------------------------------------------------------------------
(* C15 and C17: lists, on documents of list items of both kinds and three  *)
(* depths, paragraphs and blank lines.                                     *)

Ol1 == <<" ", " ", "1", ".", " ", "b">>

ListLines == {Ul0, Ul1, Ul2, Ol0, Ol1, Empty, Para}

\* the longest document of SpecList, in lines
MaxListLines == 4

NextList ==
  \/ \E head \in ListLines :
       \/ BlankLine(head, MaxListLines)
       \/ OlLine(head, MaxListLines)
       \/ UlLine(head, MaxListLines)
       \/ PLine(head, MaxListLines)
  \/ ParseEnd

SpecList == Init /\ [][NextList]_vars

\* the children of n that are li nodes
ItemsOf(ns, n) ==
  {ns[n].children[j] : j \in {k \in 1..Len(ns[n].children) : ns[ns[n].children[k]].name = "li"}}

\* C15: every li that is a child of a ul or ol in the tree has the level of
\* that list, in every state of decode and so in every AST it returns.
C15_ItemLevel ==
  \A n \in Reached(nodes, Root) :
    nodes[n].name \in {"ul", "ol"}
      => \A c \in ItemsOf(nodes, n) : nodes[c].level = nodes[n].level

\* decode has returned a tree with a list of level 1 that holds two items
\* and stands in an item of a list of level 0 with two items
C15_Witness ==
  /\ outcome = "returned"
  /\ \E n, m \in Reached(nodes, Root) :
       /\ nodes[n].name = "ul" /\ nodes[n].level = 0 /\ Cardinality(ItemsOf(nodes, n)) = 2
       /\ nodes[m].name = "ol" /\ nodes[m].level = 1 /\ Cardinality(ItemsOf(nodes, m)) = 2
       /\ nodes[m].parent \in ItemsOf(nodes, n)

\* C16 as the spec states it: decode returns or throws on every line; for
\* the inline parser, no line leaves a scanning loop running for ever.
C16_Original == outcome # "loop"

\* the line [[ has been read: the loop of link that looks for the ] of the
\* nested [ runs past the end of the line and never stops
C16_Witness == doc = <<<<"[", "[">>>> /\ outcome = "loop"

\* the nodes above n, from its parent to the top
RECURSIVE Ancestors(_, _)
Ancestors(ns, n) ==
  IF ns[n].parent = Null THEN {} ELSE {ns[n].parent} \cup Ancestors(ns, ns[n].parent)

\* the kind and the depth of a list-item line
KindOf(head) == Recognizer(head, [name |-> "root"])
DepthOf(head) == (IF KindOf(head) = "ol" THEN OlRe(head).indent ELSE UlRe(head).indent) \div 2

\* a list-item line shallower than the list the cursor is on is read
ShallowerItem(head) ==
  /\ ReadsLine(head)
  /\ KindOf(head) \in {"ul", "ol"}
  /\ nodes[cursor].name \in {"ul", "ol"}
  /\ nodes[cursor].level > DepthOf(head)

\* C17 as the spec states it: a list-item line of depth D and kind K read
\* at a list of a level above D moves the cursor to an ancestor list of
\* name K and level D and appends the new li to it.
C17_Original ==
  [][\A head \in ListLines :
       ShallowerItem(head)
         => /\ outcome' = "parsing"
            /\ cursor' \in Ancestors(nodes, cursor)
            /\ nodes'[cursor'].name = KindOf(head)
            /\ nodes'[cursor'].level = DepthOf(head)
            /\ LastOf(nodes'[cursor'].children) > Len(nodes)
            /\ nodes'[LastOf(nodes'[cursor'].children)].name = "li"]_vars

\* '- a', '  1. b', '1. a' have been read: no ol of level 0 is above the
\* cursor, the rise left the tree and decode ended with a TypeError
C17_Witness ==
  /\ doc = <<Ul0, Ol1, Ol0>>
  /\ outcome = "typeerror"
  /\ nodes[cursor].name = "ol"
  /\ nodes[cursor].level = 1

---------------------------------------------------------------------------
(* C18: table bodies, on documents of captions, rows and blank lines.      *)

RowNeg == <<"|", "-", "1", "|", "2", "|">>

\* a row whose column ends with a tab, and a row that holds a CR
RowTab == <<"|", " ", "a", "\t", "|">>
RowCR == <<"|", "a", "\r", "|">>

TableLines == {CaptionT, RowAB, RowSep, Row1, RowNeg, RowTab, RowCR, Empty}

\* the longest document of SpecTable, in lines
MaxTableLines == 5

NextTable ==
  \/ \E head \in TableLines :
       \/ BlankLine(head, MaxTableLines)
       \/ CaptionLine(head, MaxTableLines)
       \/ TableLine(head, MaxTableLines)
       \/ PLine(head, MaxTableLines)
  \/ ParseEnd

SpecTable == Init /\ [][NextTable]_vars

\* the children of n of a name, in order
ChildrenNamed(ns, n, name) == SelectSeq(ns[n].children, LAMBDA c : ns[c].name = name)

\* a table-row line is read while the cursor is a tbody
BodyRow(head) ==
  /\ ReadsLine(head)
  /\ TableRe(head).m
  /\ nodes[cursor].name = "tbody"

\* C18 as the spec states it: a row read at a tbody appends one tr of td
\* cells to that tbody and leaves the cursor there, and no table has more
\* than one tbody.
C18_Original ==
  [][/\ \A head \in TableLines :
          BodyRow(head)
            => /\ outcome' = "parsing"
               /\ cursor' = cursor
               /\ Len(nodes'[cursor].children) = Len(nodes[cursor].children) + 1
               /\ nodes'[LastOf(nodes'[cursor].children)].name = "tr"
               /\ LastOf(nodes'[cursor].children) > Len(nodes)
               /\ \A j \in 1..Len(nodes'[LastOf(nodes'[cursor].children)].children) :
                    nodes'[nodes'[LastOf(nodes'[cursor].children)].children[j]].name = "td"
     /\ \A n \in 1..Len(nodes') :
          nodes'[n].name = "table" => Len(ChildrenNamed(nodes', n, "tbody")) <= 1]_vars

\* the body row |-1|2| has been read after a body row: the table has a
\* second tbody, the cursor is on it and it has no row
C18_Witness ==
  /\ doc = <<CaptionT, RowAB, RowSep, Row1, RowNeg>>
  /\ outcome = "parsing"
  /\ nodes[cursor].name = "tbody"
  /\ nodes[cursor].children = <<>>
  /\ Len(ChildrenNamed(nodes, nodes[cursor].parent, "tbody")) = 2

---------------------------------------------------------------------------
(* C19: custom blocks, on documents of their open and close lines,         *)
(* headings, list items and captions.                                      *)

DetailsMsg == <<":", ":", ":", "m", "e", "s", "s", "a", "g", "e">>
DetailsAlert == DetailsMsg \o <<" ", "a", "l", "e", "r", "t">>

DetailsLines == {DetailsS, DetailsMsg, DetailsAlert, DetailsEnd, H1, Ul0, Ul1, CaptionT}

\* the longest document of SpecDetails, in lines
MaxDetailsLines == 6

NextDetails ==
  \/ \E head \in DetailsLines :
       \/ NullAstLine(head, MaxDetailsLines)
       \/ DetailsLine(head, MaxDetailsLines)
       \/ HeadingLine(head, MaxDetailsLines)
       \/ UlLine(head, MaxDetailsLines)
       \/ CaptionLine(head, MaxDetailsLines)
  \/ ParseEnd

SpecDetails == Init /\ [][NextDetails]_vars

\* the nearest details node from n upwards, Null when there is none
RECURSIVE NearestDetails(_, _)
NearestDetails(ns, n) ==
  IF n = Null THEN Null
  ELSE IF ns[n].name = "details" THEN n
  ELSE NearestDetails(ns, ns[n].parent)

\* the class an open line asks for
ClassOf(head) ==
  IF head = DetailsS THEN S_details ELSE IF head = DetailsMsg THEN S_message ELSE S_alert

\* the step appended a details node of the class of head to the cursor,
\* with a summary and a section, and moved the cursor into the section
Opened(head) ==
  LET d == LastOf(nodes'[cursor].children)
  IN  /\ outcome' = "parsing"
      /\ Len(nodes'[cursor].children) = Len(nodes[cursor].children) + 1
      /\ d > Len(nodes)
      /\ nodes'[d].name = "details"
      /\ nodes'[d].parent = cursor
      /\ get(nodes'[d].attr, Key("class")) = ClassOf(head)
      /\ Len(nodes'[d].children) = 2
      /\ nodes'[nodes'[d].children[1]].name = "summary"
      /\ nodes'[nodes'[d].children[2]].name = "section"
      /\ cursor' = nodes'[d].children[2]
      /\ NearestDetails(nodes', cursor') = d

\* the step moved the cursor to the parent of the nearest details above it
\* and added no node
Closed ==
  /\ outcome' = "parsing"
  /\ cursor' = nodes[NearestDetails(nodes, cursor)].parent
  /\ nodes' = nodes

\* the open lines of the first k lines of d less the close lines
RECURSIVE OpenCount(_, _)
OpenCount(d, k) ==
  IF k = 0 THEN 0
  ELSE OpenCount(d, k - 1)
         + (IF d[k] = DetailsEnd THEN -1
            ELSE IF d[k] \in {DetailsS, DetailsMsg, DetailsAlert} THEN 1 ELSE 0)

\* the first line of d opens a block at root and the last line of d is the
\* close line that matches it: the blocks opened in between are closed in
\* between
MatchedAtRoot(d) ==
  /\ Len(d) >= 2
  /\ d[1] \in {DetailsS, DetailsMsg, DetailsAlert}
  /\ d[Len(d)] = DetailsEnd
  /\ OpenCount(d, Len(d)) = 0
  /\ \A k \in 1..(Len(d) - 1) : OpenCount(d, k) >= 1

\* C19 as the spec states it: an open line read at cursor X appends a
\* details node of its class to X with a summary and a section and moves
\* the cursor into the section; a bare ::: read under a details node moves
\* the cursor to the parent of the nearest one; and the close line that
\* matches an open line read at root puts the cursor on root again,
\* whatever headings, list items, captions and balanced blocks were read
\* in between.
C19_Original ==
  [][/\ \A head \in DetailsLines :
          (ReadsLine(head) /\ cursor # Null /\ Recognizer(head, nodes[cursor]) = "details")
            => IF head = DetailsEnd
               THEN NearestDetails(nodes, cursor) # Null => Closed
               ELSE Opened(head)
     /\ (MatchedAtRoot(doc') /\ outcome' = "parsing") => cursor' = Root]_vars

\* ':::details s', '- a', ':::message', ':::', '  - b', ':::' have been
\* read: the item b went into the closed inner block, and the close line
\* of the outer block left the cursor on the list inside it
C19_Witness ==
  /\ doc = <<DetailsS, Ul0, DetailsMsg, DetailsEnd, Ul1, DetailsEnd>>
  /\ outcome = "parsing"
  /\ nodes[cursor].name = "ul"
  /\ NearestDetails(nodes, cursor) # Null

---------------------------------------------------------------------------
(* C20: a code fence and the cursor, on the documents of SpecPre.          *)

\* the step appended one new node, a pre, to the cursor and made it the
\* cursor
FenceOpened ==
  /\ outcome' = "parsing"
  /\ Len(nodes') = Len(nodes) + 1
  /\ cursor' = Len(nodes')
  /\ nodes'[cursor'].name = "pre"
  /\ nodes'[cursor'].parent = cursor
  /\ nodes'[cursor'].children = <<>>
  /\ nodes'[cursor].children = Append(nodes[cursor].children, cursor')
  /\ \A n \in 1..Len(nodes) : n # cursor => nodes'[n] = nodes[n]

\* the step put the cursor on the parent of the pre and made no node
FenceClosed ==
  /\ outcome' = "parsing"
  /\ cursor' = nodes[cursor].parent
  /\ nodes' = nodes

\* the step left the cursor on the pre, and the tree as it was but for the
\* children of the pre
KeptInside ==
  /\ outcome' = "parsing"
  /\ cursor' = cursor
  /\ nodes'[cursor].parent = nodes[cursor].parent
  /\ \A n \in 1..Len(nodes) : n # cursor => nodes'[n] = nodes[n]
  /\ \A n \in (Len(nodes) + 1)..Len(nodes') : nodes'[n].parent = cursor

\* what C20 says of the lines and of the end of the document
FenceSteps ==
  /\ \A head \in PreLines :
       (ReadsLine(head) /\ cursor # Null)
         => IF FenceRe(head).m
            THEN IF nodes[cursor].name = "pre" THEN FenceClosed ELSE FenceOpened
            ELSE nodes[cursor].name = "pre" => KeptInside
  /\ (/\ outcome = "parsing"
      /\ cursor # Null
      /\ nodes[cursor].name = "pre"
      /\ outcome' # "parsing"
      /\ doc' = doc)
       => outcome' = "returned" /\ cursor' = Root

\* the fence line of the spec's example, a space before the lang, has been
\* read at root: decode has thrown and no pre was opened
C20_Witness ==
  /\ doc = <<FenceSpJs>>
  /\ outcome = "throw"
  /\ error = [msg |-> "too many spaces around", input |-> FenceSpJs]
  /\ cursor = Root
  /\ Len(nodes) = 1

\* a fence has been opened in a list that hangs under a paragraph with no
\* parent, and the document has ended there: the rise to root has left the
\* tree and decode has thrown a TypeError
FenceEndsOutsideTree ==
  /\ doc = <<Ul0, Para, Ul1, Fence>>
  /\ outcome = "typeerror"
  /\ cursor = Null
  /\ \E n \in 1..Len(nodes) : nodes[n].name = "pre" /\ nodes[n].children = <<>>

\* C20 as the spec states it: a fence line read at a cursor that is not a
\* pre appends a new pre to it and makes it the cursor; while the cursor
\* is that pre, a line that is no fence line leaves the cursor and the
\* tree outside the pre as they were; the next fence line sets the cursor
\* back and makes no node; a document that ends inside the pre returns
\* root.
C20_Original == [][FenceSteps]_vars

---------------------------------------------------------------------------
(* C21: the empty line, on the documents of Spec and of SpecList.           *)

\* n and the nodes above it
SelfAndAncestors(ns, n) == {n} \cup Ancestors(ns, n)

\* the number of parent links from n to the top
RECURSIVE Height(_, _)
Height(ns, n) == IF ns[n].parent = Null THEN 0 ELSE 1 + Height(ns, ns[n].parent)

\* the nearest section among n and the nodes above it, root when there is
\* none
NearestSection(ns, n) ==
  LET secs == {a \in SelfAndAncestors(ns, n) : ns[a].name = "section"}
  IN  IF secs = {} THEN Root
      ELSE CHOOSE a \in secs : \A b \in secs : Height(ns, a) >= Height(ns, b)

\* the nodes a list, a quote, a table or a raw-HTML block is made of
ClosedKinds == {"ul", "ol", "li", "blockquote", "figure", "table", "thead", "tbody", "html"}

\* the empty line is read in this step at a cursor that is not a pre
BlankStep == ReadsLine(Empty) /\ cursor # Null /\ nodes[cursor].name # "pre"

\* the step put the cursor on the nearest section, or on root, and left
\* the tree as it was
BlankRises ==
  /\ outcome' = "parsing"
  /\ cursor' = NearestSection(nodes, cursor)
  /\ nodes' = nodes

\* after the step the cursor is inside no list, quote, table or html block,
\* and the node a definition line would extend is not a dl
BlankCloses ==
  /\ \A a \in SelfAndAncestors(nodes', cursor') : nodes'[a].name \notin ClosedKinds
  /\ nodes'[cursor'].children # <<>> => nodes'[LastOf(nodes'[cursor'].children)].name # "dl"

\* C21: an empty line read at a cursor that is not a pre puts the cursor on
\* the nearest section among the cursor and its ancestors, or on root when
\* there is none, and leaves the tree unchanged; after it no list, quote,
\* table, html block or definition list is open any more.
C21_Original == [][BlankStep => BlankRises /\ BlankCloses]_vars

\* a paragraph line has been read at a list cursor, then a deeper item,
\* which opens its list under the paragraph, then an empty line: the walk
\* to the nearest section leaves the tree at the paragraph
C21_Witness ==
  /\ doc = <<Ul0, Para, Ul1, Empty>>
  /\ outcome = "typeerror"
  /\ cursor = Null
  /\ \E n \in 1..Len(nodes) :
       /\ nodes[n].name = "ul"
       /\ nodes[n].level = 1
       /\ nodes[nodes[n].parent].name = "p"
       /\ nodes[nodes[n].parent].parent = Null

---------------------------------------------------------------------------
(* C22: what the nodes of a returned tree hold, on the documents of Spec.  *)

\* the names of the children of n
ChildNames(ns, n) == {ns[ns[n].children[j]].name : j \in 1..Len(ns[n].children)}

\* the children of n are what the content model asks of a node of its name
ContentModel(ns, n) ==
  /\ ns[n].name \in {"ul", "ol"} => ChildNames(ns, n) \subseteq {"li"}
  /\ ns[n].name \in {"thead", "tbody"} => ChildNames(ns, n) \subseteq {"tr"}
  /\ ns[n].name = "html" => ChildNames(ns, n) \subseteq {"text"}

\* C22: in every tree decode returns, every child of a ul or an ol is an
\* li, every child of a thead or a tbody is a tr, and every child of an
\* html node is a text node.
C22_Original ==
  outcome = "returned" => \A n \in Reached(nodes, Root) : ContentModel(nodes, n)

\* a paragraph line has followed a raw-HTML line: the returned tree has an
\* html node with a p child, and encode has printed the text of that p,
\* which it does not have
C22_Witness ==
  /\ doc = <<HtmlDiv, Para>>
  /\ outcome = "returned"
  /\ encodes = 1
  /\ \E n \in Reached(nodes, Root) :
       /\ nodes[n].name = "html"
       /\ "p" \in ChildNames(nodes, n)
  /\ Str(output) = "<div>\nundefined\n"

---------------------------------------------------------------------------
(* C23: encode called twice on one tree, on the documents of Spec.         *)

\* encode is called for the second time in this step
SecondEncode == outcome = "returned" /\ encodes = 1 /\ encodes' = 2

\* C23: the second encode of a tree decode returned gives the string the
\* first encode gave.
C23_Original == [][SecondEncode => output' = output]_vars

\* a fence line with a language has been decoded and the tree encoded
\* twice: the second string has lost the class of the code element
C23_Witness ==
  /\ doc = <<FenceJs>>
  /\ outcome = "returned"
  /\ encodes = 2
  /\ Str(output) = "<pre class=js data-code=js><code translate=no></code></pre>\n"

=============================================================================
